---- MODULE Spec2Model ----
(***************************************************************************)
(* A model of the infinite-canvas editor of src/app.js (the later, more    *)
(* feature-complete variant, lines 790-1885): the node registry (the DOM   *)
(* children of #world), the selection, the pointer gesture machine, the    *)
(* undo/redo history and the raster editor of image-editor nodes.          *)
(*                                                                         *)
(* Lengths are fixed-point: a style length (left, top, width, height) is   *)
(* an integer count of 1/Sub px, so that the fractional pixels produced by *)
(* dividing a pointer delta by the zoom, and the integer rounding done by  *)
(* offsetLeft/offsetTop/offsetWidth/offsetHeight, are both represented.    *)
(* The zoom is an integer count of tenths (ZOOM.step is 0.1).  The canvas  *)
(* element is taken to fill the viewport (its bounding rect starts at 0,0).*)
(***************************************************************************)
EXTENDS Integers, Sequences, FiniteSets, TLC

---------------------------------------------------------------------------
(* Bounds of the model *)

MaxTime == 0
MaxElems == 2
MaxNodes == 1
MaxHist == 2
MaxLoads == 2
MaxPan == 20
MinScreenPx == 99
MaxScreenPx == 125
MaxGrowPx == 35
MaxLayers == 3
MaxPath == 2
Sub == 3
AutoHeightPx == 160
MaxCropPx == 40
MaxDepth == 2

(* Program constants *)

NodeWidthPx == 280
Auto == -1
NoElem == 0
ZoomMinTenths == 3
ZoomMaxTenths == 20
ZoomStepTenths == 1

WorldW == 4000
WorldH == 3000

\* canvasEl.clientWidth and clientHeight: the viewport in which init() gives the
\* pan (0,0); the canvas starts at the viewport's top-left corner.
ViewportW == 2400
ViewportH == 1800

Kinds == {"text", "image-upload", "image-editor"}

\* The pointer positions (clientX, clientY) the input events are drawn from.
Points == {<<100, 100>>, <<120, 120>>}

\* init(): initialZoom = 0.6
InitialZoomTenths == 6

Handles == 1..MaxElems

---------------------------------------------------------------------------
(* Pure helpers *)

Range(s) == {s[i] : i \in 1..Len(s)}

SeqRemove(s, x) == SelectSeq(s, LAMBDA y : y # x)

\* Set.prototype.add on an insertion-ordered set.
SetAdd(s, x) == IF x \in Range(s) THEN s ELSE Append(s, x)

\* A clamp that has no upper limit.
clampBelow(v, min, max) == IF v < min THEN min ELSE v

clamp(v, min, max) == IF v < min THEN min ELSE IF v > max THEN max ELSE v

\* `${n}px` for a number of whole pixels, as a style length.
Px(n) == n * Sub

\* The integer pixel value layout reports for a style length (offsetLeft ...):
\* rounding to the nearest pixel.
RoundPx(v) == (2 * v + Sub) \div (2 * Sub)

\* d / zoom for a pointer delta d in px, as a style length.
DivZoom(d, z) == (d * Sub * 10) \div z

\* The dash-separated tokens of a node kind's name.
KindTokens(k) ==
  CASE k = "text" -> <<"text">>
    [] k = "image-upload" -> <<"image", "upload">>
    [] k = "image-editor" -> <<"image", "editor">>
    [] OTHER -> <<k>>

\* `${type}-${Date.now()}`
MakeNodeId(type, t) == [kind |-> type, t |-> t]

\* nodeState.id.split('-')[0]
IdFirstToken(id) == Head(KindTokens(id.kind))

\* A page that has a template for every name.
HasAnyTemplate(type) == type = type

\* $(`#node-template-${type}`): the markup has one template per node kind.
HasTemplate(type) == type \in Kinds

---------------------------------------------------------------------------
(* State *)

VARIABLES
  now,                      \* Date.now()
  world,                    \* the .canvas-node children of #world, in document order
  elems,                    \* every node element still referenced: id and inline style
  selectedNodes,            \* state.selectedNodes (a Set: insertion-ordered)
  activeTool,               \* state.activeTool
  zoom, panX, panY,         \* state.zoom (tenths), state.panX, state.panY (px)
  isPanning, isBoxSelecting, isDraggingNode, isResizingNode,
  resizedNode,              \* state.resizedNode
  pointerAction,            \* state.pointerAction
  rafPending,               \* a requestAnimationFrame(updatePositions) callback is queued
  cachedNodesForSelection,
  stack, index,             \* history.stack, history.index
  isApplyingHistory,
  undoDisabled, redoDisabled,  \* undoBtn.disabled, redoBtn.disabled
  editor2dInstances,        \* node id -> the raster editor made for that id
  activeEditorNode,         \* state.activeEditorNode: <<>> (null) or <<node id>>
  imageLoads                \* image loads started and not yet completed

canvasVars == <<now, world, elems, selectedNodes, activeTool, zoom, panX, panY>>
gestureVars == <<isPanning, isBoxSelecting, isDraggingNode, isResizingNode,
                 resizedNode, pointerAction, rafPending, cachedNodesForSelection>>
historyVars == <<stack, index, isApplyingHistory, undoDisabled, redoDisabled>>
editorVars == <<editor2dInstances, activeEditorNode, imageLoads>>
vars == <<canvasVars, gestureVars, historyVars, editorVars>>

---------------------------------------------------------------------------
(* The node registry: elements, layout and hit testing *)

Attached(h) == h \in Range(world)

\* $(`[data-node-id="${id}"]`): the first attached element with that id, or null.
NodeById(w, el, id) ==
  LET hits == {i \in 1..Len(w) : el[w[i]].id = id}
  IN IF hits = {} THEN NoElem
     ELSE w[CHOOSE i \in hits : \A j \in hits : i <= j]

\* node.offsetLeft, offsetTop, offsetWidth, offsetHeight: whole pixels, 0 for an
\* element that is not in the document.
offsetLeft(w, el, h) == IF h \in Range(w) THEN RoundPx(el[h].left) ELSE 0
offsetTop(w, el, h) == IF h \in Range(w) THEN RoundPx(el[h].top) ELSE 0
offsetWidth(w, el, h) == IF h \in Range(w) THEN RoundPx(el[h].width) ELSE 0
offsetHeight(w, el, h) ==
  IF h \in Range(w)
  THEN IF el[h].height = Auto THEN AutoHeightPx ELSE RoundPx(el[h].height)
  ELSE 0

\* Assigning an invalid (negative) length to style.width or style.height is
\* ignored by the style declaration: the old value stays.
CssSize(old, new) == IF new < 0 THEN old ELSE new

captureNodeState(el, nodes) ==
  [i \in 1..Len(nodes) |->
     [id |-> el[nodes[i]].id, left |-> el[nodes[i]].left, top |-> el[nodes[i]].top,
      width |-> el[nodes[i]].width, height |-> el[nodes[i]].height]]

screenToWorld(d, p) ==
  <<DivZoom(p[1] - d.panX, d.zoom), DivZoom(p[2] - d.panY, d.zoom)>>

\* The laid-out box of an attached element, as style lengths.
BoxOf(el, h) ==
  [l |-> el[h].left, t |-> el[h].top, w |-> el[h].width,
   h |-> IF el[h].height = Auto THEN Px(AutoHeightPx) ELSE el[h].height]

\* e.target.closest('.canvas-node') for a pointer event at p: the topmost (last in
\* document order) node whose box holds the point, or null.
NodeAt(d, p) ==
  LET wp == screenToWorld(d, p)
      hits == {i \in 1..Len(d.world) :
                 LET b == BoxOf(d.elems, d.world[i])
                 IN /\ b.l <= wp[1] /\ wp[1] < b.l + b.w
                    /\ b.t <= wp[2] /\ wp[2] < b.t + b.h}
  IN IF hits = {} THEN NoElem
     ELSE d.world[CHOOSE i \in hits : \A j \in hits : i >= j]

\* The smallest element handle not in use.
FreshHandle(el) ==
  LET free == (1..(Cardinality(DOMAIN el) + 1)) \ DOMAIN el
  IN CHOOSE h \in free : \A g \in free : h <= g

\* The elements some variable of the program still refers to.
Referenced(w, sel, res, pa, cached) ==
  Range(w) \cup Range(sel) \cup (IF res = NoElem THEN {} ELSE {res})
    \cup {pa.nodeDragStartPositions[i].node : i \in 1..Len(pa.nodeDragStartPositions)}
    \cup pa.initialSelectionOnDragStart \cup Range(cached)

Restrict(f, S) == [x \in (DOMAIN f) \cap S |-> f[x]]

---------------------------------------------------------------------------
(* The bitmap surface.  A picture is its pixel size and the list of paint    *)
(* operations that produced its pixels since it was last cleared; an encoded *)
(* snapshot (canvas.toDataURL(), image.src) is the picture itself, and an    *)
(* image decoded from it has that picture's size and pixels.                 *)

NoImage == [w |-> 0, h |-> 0, layers |-> <<>>]

\* An image file the user uploads: its name stands for its pixels.
FileImage(name, w, h) == [w |-> w, h |-> h, layers |-> <<[op |-> "file", name |-> name]>>]

\* An encoding that keeps the size of the surface and drops what it shows.
toDataURLOfSize(ed) == [w |-> ed.canvasW, h |-> ed.canvasH, layers |-> <<>>]

\* canvas.toDataURL()
toDataURL(ed) == [w |-> ed.canvasW, h |-> ed.canvasH, layers |-> ed.bitmap]

\* ctx.drawImage(img, sx, sy, sw, sh, dx, dy, dw, dh) on a surface of size cw x ch
\* that shows `layers`.  Painting the whole of a picture, unscaled, over the whole
\* of a cleared surface of the picture's size gives the picture's own pixels.
drawImage(layers, cw, ch, img, sx, sy, sw, sh, dx, dy, dw, dh) ==
  IF sw = 0 \/ sh = 0 \/ img.w = 0 \/ img.h = 0 THEN layers
  ELSE IF /\ layers = <<>> /\ sx = 0 /\ sy = 0 /\ sw = img.w /\ sh = img.h
          /\ dx = 0 /\ dy = 0 /\ dw = cw /\ dh = ch /\ img.w = cw /\ img.h = ch
  THEN img.layers
  ELSE Append(layers, [op |-> "image", img |-> img, sx |-> sx, sy |-> sy, sw |-> sw,
                       sh |-> sh, dx |-> dx, dy |-> dy, dw |-> dw, dh |-> dh])

getDrawnImageRect(ed) ==
  IF ed.bgImage = NoImage THEN [x |-> 0, y |-> 0, w |-> 0, h |-> 0]
  ELSE LET cw == ed.canvasW
           ch == ed.canvasH
           iw == ed.bgImage.w
           ih == ed.bgImage.h
           \* canvasAspectRatio > imgAspectRatio
           wide == cw * ih > iw * ch
           baseH == IF wide THEN ch ELSE (cw * ih) \div iw
           baseW == IF wide THEN (ch * iw) \div ih ELSE cw
           w == (baseW * ed.bgImageScale) \div 100
           h == (baseH * ed.bgImageScale) \div 100
       IN [x |-> (cw - w) \div 2 + ed.bgImagePos.x,
           y |-> (ch - h) \div 2 + ed.bgImagePos.y, w |-> w, h |-> h]

\* The crop overlay redrawEditor paints over the surface.
CropOverlay(ed) ==
  [op |-> "crop-overlay",
   x |-> IF ed.cropBox.w < 0 THEN ed.cropBox.x + ed.cropBox.w ELSE ed.cropBox.x,
   y |-> IF ed.cropBox.h < 0 THEN ed.cropBox.y + ed.cropBox.h ELSE ed.cropBox.y,
   w |-> IF ed.cropBox.w < 0 THEN -ed.cropBox.w ELSE ed.cropBox.w,
   h |-> IF ed.cropBox.h < 0 THEN -ed.cropBox.h ELSE ed.cropBox.h,
   handles |-> IF ed.isCroppingActive THEN ed.handles ELSE <<>>]

redrawEditor(ed) ==
  LET r == getDrawnImageRect(ed)
      bg == IF ed.bgImage = NoImage THEN <<>>
            ELSE drawImage(<<>>, ed.canvasW, ed.canvasH, ed.bgImage,
                           0, 0, ed.bgImage.w, ed.bgImage.h, r.x, r.y, r.w, r.h)
  IN [ed EXCEPT !.bitmap =
        IF ed.isCroppingActive \/ ed.isDefiningCropArea
        THEN Append(bg, CropOverlay(ed)) ELSE bg]

\* Math.max(1, Math.floor(v)) for a size in whole pixels.
CanvasDim(v) == IF v < 1 THEN 1 ELSE v

resizeEditorCanvas(ed, width, height) ==
  LET prev == toDataURL(ed)
      nw == CanvasDim(width)
      nh == CanvasDim(height)
  IN [ed EXCEPT !.canvasW = nw, !.canvasH = nh,
                !.bitmap = drawImage(<<>>, nw, nh, prev, 0, 0, prev.w, prev.h, 0, 0, nw, nh),
                \* setting canvas.width resets the context: path and compositing
                !.path = <<>>, !.composite = "source-over"]

\* ed.container.getBoundingClientRect() for the editor of element h: the
\* container fills its node; a bounding client rect is in screen pixels, so it is
\* scaled by the zoom.
ContainerClientSize(w, el, h, z) ==
  <<(offsetWidth(w, el, h) * z) \div 10, (offsetHeight(w, el, h) * z) \div 10>>

\* The state initializeImageEditorNode gives a new editor.
NewEditor(id) ==
  [nodeId |-> id,
   canvasW |-> 300, canvasH |-> 150, bitmap |-> <<>>,
   drawing |-> FALSE, isMovingImage |-> FALSE, isTransforming |-> FALSE,
   bgImage |-> NoImage, bgImagePos |-> [x |-> 0, y |-> 0], bgImageScale |-> 100,
   moveStart |-> [pointer |-> [x |-> 0, y |-> 0], image |-> [x |-> 0, y |-> 0]],
   opStart |-> [x |-> 0, y |-> 0],
   transformStart |-> [scale |-> 100, y |-> 0],
   isDefiningCropArea |-> FALSE, isCroppingActive |-> FALSE,
   cropBox |-> [x |-> 0, y |-> 0, w |-> 0, h |-> 0],
   cropStartBox |-> [x |-> 0, y |-> 0, w |-> 0, h |-> 0],
   handles |-> <<>>, activeHandle |-> "", isMovingCropBox |-> FALSE,
   beforeSnapshot |-> NoImage, hasSnapshot |-> FALSE,
   path |-> <<>>, composite |-> "source-over", listening |-> FALSE,
   observed |-> <<0, 0>>]

---------------------------------------------------------------------------
(* Undo/redo history.  Every operation of the program is a function of a     *)
(* record d of the whole state (Doc below), with a field for each variable:  *)
(* eds is editor2dInstances, loads is imageLoads, guard is isApplyingHistory.*)

NoMeta == [has |-> FALSE, pos |-> [x |-> 0, y |-> 0], scale |-> 100]

Meta(pos, scale) == [has |-> TRUE, pos |-> pos, scale |-> scale]

\* A refresh of the undo button alone.
updateUndoButton(d) == [d EXCEPT !.undoDisabled = d.index < 0]

\* history.updateButtons
updateButtons(d) ==
  [d EXCEPT !.undoDisabled = d.index < 0,
            !.redoDisabled = d.index >= Len(d.stack) - 1]

\* A push that keeps the entries after the cursor.
HistoryAddKeepingTail(d, action) ==
  IF d.guard THEN d
  ELSE updateButtons([d EXCEPT !.stack = Append(d.stack, action),
                               !.index = d.index + 1])

\* A push that does not look at the guard.
HistoryAddUnguarded(d, action) ==
  LET kept == IF d.index < Len(d.stack) - 1
              THEN SubSeq(d.stack, 1, d.index + 1) ELSE d.stack
  IN updateButtons([d EXCEPT !.stack = Append(kept, action),
                             !.index = d.index + 1])

\* history.add
HistoryAdd(d, action) ==
  IF d.guard THEN d
  ELSE LET kept == IF d.index < Len(d.stack) - 1
                   THEN SubSeq(d.stack, 1, d.index + 1) ELSE d.stack
       IN updateButtons([d EXCEPT !.stack = Append(kept, action),
                                  !.index = d.index + 1])

\* One iteration of applyNodeState's loop.
ApplyOneNodeState(d, ns, z) ==
  LET node == NodeById(d.world, d.elems, ns.id)
  IN IF node = NoElem THEN d
     ELSE LET el == [d.elems EXCEPT ![node].left = ns.left, ![node].top = ns.top,
                                    ![node].width = ns.width, ![node].height = ns.height]
          IN IF ns.id \in DOMAIN d.eds
             THEN LET size == ContainerClientSize(d.world, el, node, z)
                  IN [d EXCEPT !.elems = el,
                               !.eds[ns.id] = redrawEditor(
                                  resizeEditorCanvas(d.eds[ns.id], size[1], size[2]))]
             ELSE [d EXCEPT !.elems = el]

\* history.applyNodeState
RECURSIVE applyNodeState(_, _, _)
applyNodeState(d, nodeStates, z) ==
  IF nodeStates = <<>> THEN d
  ELSE applyNodeState(ApplyOneNodeState(d, Head(nodeStates), z), Tail(nodeStates), z)

\* history.applyEditorState: starts the load of an image from the snapshot; the
\* editor changes when the load completes (ApplyLoaded).
applyEditorState(d, nodeId, dataUrl, metadata) ==
  IF nodeId \notin DOMAIN d.eds THEN d
  ELSE [d EXCEPT !.loads = Append(d.loads,
          [kind |-> "apply", nodeId |-> nodeId, src |-> dataUrl, metadata |-> metadata,
           before |-> NoImage])]

\* The img.onload callback of applyEditorState.
ApplyLoaded(ed, load) ==
  redrawEditor([ed EXCEPT
    !.bgImage = load.src,
    !.bgImagePos = IF load.metadata.has THEN load.metadata.pos ELSE [x |-> 0, y |-> 0],
    !.bgImageScale = IF load.metadata.has THEN load.metadata.scale ELSE 100])

\* createNode(type, x, y, restorationState): rs is the restoration state when
\* restoring is TRUE; x and y are style lengths; t is Date.now().
createNode(d, type, x, y, restoring, rs, t) ==
  LET nodeId == IF restoring THEN rs.id ELSE MakeNodeId(type, t)
  IN IF NodeById(d.world, d.elems, nodeId) # NoElem THEN d
     ELSE IF ~HasTemplate(type) THEN d
     ELSE LET h == FreshHandle(d.elems)
              style == IF restoring
                       THEN [id |-> nodeId, left |-> rs.left, top |-> rs.top,
                             width |-> rs.width, height |-> rs.height]
                       ELSE [id |-> nodeId, left |-> x, top |-> y,
                             width |-> Px(NodeWidthPx), height |-> Auto]
              el == (h :> style) @@ d.elems
              d1 == [d EXCEPT !.world = Append(d.world, h), !.elems = el]
              d2 == IF type = "image-editor"
                    THEN [d1 EXCEPT !.eds = (nodeId :> NewEditor(nodeId)) @@ d.eds]
                    ELSE d1
          IN IF restoring THEN d2
             ELSE HistoryAdd(d2, [type |-> "create", before |-> <<>>,
                                  after |-> captureNodeState(el, <<h>>)])

\* The create branch of undo: remove every listed node that is in the document.
RECURSIVE RemoveNodes(_, _)
RemoveNodes(d, states) ==
  IF states = <<>> THEN d
  ELSE LET node == NodeById(d.world, d.elems, Head(states).id)
       IN RemoveNodes([d EXCEPT !.world = SeqRemove(d.world, node)], Tail(states))

\* The create branch of redo.
RECURSIVE RecreateNodes(_, _)
RecreateNodes(d, states) ==
  IF states = <<>> THEN d
  ELSE RecreateNodes(
         createNode(d, IdFirstToken(Head(states).id), 0, 0, TRUE, Head(states), 0),
         Tail(states))

\* history.undo past its first statement: the replay of the action at the cursor.
UndoReplay(d, z) ==
  LET g == [d EXCEPT !.guard = TRUE]
      action == d.stack[d.index + 1]
      applied == CASE action.type = "create" -> RemoveNodes(g, action.after)
                   [] action.type = "editor:modify" ->
                        applyEditorState(g, action.nodeId, action.before,
                                         action.beforeMetadata)
                   [] OTHER -> applyNodeState(g, action.before, z)
  IN [updateButtons([applied EXCEPT !.index = d.index - 1]) EXCEPT !.guard = FALSE]

\* An undo that sets the guard before it looks at the cursor.
HistoryUndoGuardFirst(d, z) ==
  IF d.index < 0 THEN [d EXCEPT !.guard = TRUE] ELSE UndoReplay(d, z)

\* history.undo
HistoryUndo(d, z) == IF d.index < 0 THEN d ELSE UndoReplay(d, z)

\* history.redo
HistoryRedo(d, z) ==
  IF d.index >= Len(d.stack) - 1 THEN d
  ELSE LET g == [d EXCEPT !.guard = TRUE, !.index = d.index + 1]
           action == d.stack[d.index + 2]
           applied == CASE action.type = "create" -> RecreateNodes(g, action.after)
                        [] action.type = "editor:modify" ->
                             applyEditorState(g, action.nodeId, action.after,
                                              action.metadata)
                        [] OTHER -> applyNodeState(g, action.after, z)
       IN [updateButtons(applied) EXCEPT !.guard = FALSE]

---------------------------------------------------------------------------
(* Selection *)

\* updateNodeSelection: walks the nodes of the document in order; elements that
\* are no longer in the document are never visited.
RECURSIVE updateNodeSelection(_, _, _)
updateNodeSelection(cur, nodesToSelect, dom) ==
  IF dom = <<>> THEN cur
  ELSE LET n == Head(dom)
           nxt == IF n \in nodesToSelect /\ n \notin Range(cur) THEN Append(cur, n)
                  ELSE IF n \notin nodesToSelect /\ n \in Range(cur) THEN SeqRemove(cur, n)
                  ELSE cur
       IN updateNodeSelection(nxt, nodesToSelect, Tail(dom))

clearSelection(cur, dom) == updateNodeSelection(cur, {}, dom)

selectSingleNode(cur, n, dom) == updateNodeSelection(cur, {n}, dom)

toggleNodeSelection(cur, n, dom) ==
  updateNodeSelection(cur, IF n \in Range(cur) THEN Range(cur) \ {n}
                           ELSE Range(cur) \cup {n}, dom)

---------------------------------------------------------------------------
(* The raster editor of an image-editor node *)

Abs(v) == IF v < 0 THEN -v ELSE v

Sign(v) == IF v < 0 THEN -1 ELSE IF v > 0 THEN 1 ELSE 0

\* getRelativePointerPos(e, canvas) for a pointer at screen point p.  The canvas
\* is at the top left corner of its node; the rect of a canvas that is not in
\* the document is at (0,0).
getRelativePointerPos(d, id, p) ==
  LET h == NodeById(d.world, d.elems, id)
  IN IF h = NoElem THEN [x |-> p[1], y |-> p[2]]
     ELSE [x |-> p[1] - (d.panX + (d.elems[h].left * d.zoom) \div (Sub * 10)),
           y |-> p[2] - (d.panY + (d.elems[h].top * d.zoom) \div (Sub * 10))]

\* A paint operation of the 2d context on the editor's surface.  Painting with
\* 'destination-out' on a surface that shows nothing changes no pixel.
Paint(ed, layer) ==
  IF ed.composite = "destination-out" /\ ed.bitmap = <<>> THEN ed
  ELSE [ed EXCEPT !.bitmap = Append(ed.bitmap, layer)]

\* Handles at the four corners of the crop box only.
updateCropCornerHandles(ed) ==
  [ed EXCEPT !.handles =
     << [x |-> ed.cropBox.x, y |-> ed.cropBox.y, name |-> "tl"],
        [x |-> ed.cropBox.x + ed.cropBox.w, y |-> ed.cropBox.y, name |-> "tr"],
        [x |-> ed.cropBox.x + ed.cropBox.w, y |-> ed.cropBox.y + ed.cropBox.h, name |-> "br"],
        [x |-> ed.cropBox.x, y |-> ed.cropBox.y + ed.cropBox.h, name |-> "bl"] >>]

updateCropHandles(ed) ==
  LET x == ed.cropBox.x
      y == ed.cropBox.y
      w == ed.cropBox.w
      h == ed.cropBox.h
  IN [ed EXCEPT !.handles =
        << [x |-> x, y |-> y, name |-> "tl"],
           [x |-> x + w \div 2, y |-> y, name |-> "tm"],
           [x |-> x + w, y |-> y, name |-> "tr"],
           [x |-> x + w, y |-> y + h \div 2, name |-> "mr"],
           [x |-> x + w, y |-> y + h, name |-> "br"],
           [x |-> x + w \div 2, y |-> y + h, name |-> "bm"],
           [x |-> x, y |-> y + h, name |-> "bl"],
           [x |-> x, y |-> y + h \div 2, name |-> "ml"] >>]

CROP_HANDLE_HITBOX == 8

\* A search that finds no handle.
FindNoHandle(ed, pos) == ""

\* ed.handles.find(...): the name of the first handle whose hit box holds pos,
\* "" for none.
FindHandle(ed, pos) ==
  LET hits == {i \in 1..Len(ed.handles) :
                 /\ Abs(pos.x - ed.handles[i].x) < CROP_HANDLE_HITBOX
                 /\ Abs(pos.y - ed.handles[i].y) < CROP_HANDLE_HITBOX}
  IN IF hits = {} THEN ""
     ELSE ed.handles[CHOOSE i \in hits : \A j \in hits : i <= j].name

InsideCropBox(ed, pos) ==
  /\ pos.x > ed.cropBox.x /\ pos.x < ed.cropBox.x + ed.cropBox.w
  /\ pos.y > ed.cropBox.y /\ pos.y < ed.cropBox.y + ed.cropBox.h

\* endCrop(ed, apply).  A crop that is applied starts the load of the cropped
\* image; its img.onload callback is CropLoaded.
endCrop(d, id, apply) ==
  LET ed == d.eds[id]
  IN IF ~ed.isCroppingActive /\ ~ed.isDefiningCropArea THEN d
     ELSE LET box == ed.cropBox
              r == getDrawnImageRect(ed)
              doCrop == /\ apply /\ box.w > 1 /\ box.h > 1 /\ ed.bgImage # NoImage
                        /\ r.w > 0 /\ r.h > 0
              sourceX == ((box.x - r.x) * ed.bgImage.w) \div r.w
              sourceY == ((box.y - r.y) * ed.bgImage.h) \div r.h
              sourceW == (box.w * ed.bgImage.w) \div r.w
              sourceH == (box.h * ed.bgImage.h) \div r.h
              fw == CanvasDim(sourceW)
              fh == CanvasDim(sourceH)
              cropped == [w |-> fw, h |-> fh,
                          layers |-> drawImage(<<>>, fw, fh, ed.bgImage, sourceX, sourceY,
                                               sourceW, sourceH, 0, 0, fw, fh)]
              loads == IF doCrop
                       THEN Append(d.loads,
                              [kind |-> "crop", nodeId |-> id, src |-> cropped,
                               metadata |-> Meta(ed.bgImagePos, ed.bgImageScale),
                               before |-> ed.bgImage])
                       ELSE d.loads
          IN [d EXCEPT !.loads = loads,
                       !.eds[id] = redrawEditor(
                          [ed EXCEPT !.isCroppingActive = FALSE,
                                     !.isDefiningCropArea = FALSE,
                                     !.activeHandle = "", !.isMovingCropBox = FALSE])]

handleCropPointerDown(d, id, pos) ==
  LET ed == d.eds[id]
  IN IF ed.isCroppingActive
     THEN LET hit == FindHandle(ed, pos)
          IN IF hit # ""
             THEN [d EXCEPT !.eds[id] =
                     [ed EXCEPT !.activeHandle = hit, !.isMovingCropBox = FALSE,
                                !.cropStartBox = ed.cropBox, !.opStart = pos]]
             ELSE IF InsideCropBox(ed, pos)
             THEN [d EXCEPT !.eds[id] =
                     [ed EXCEPT !.activeHandle = "", !.isMovingCropBox = TRUE,
                                !.cropStartBox = ed.cropBox, !.opStart = pos]]
             ELSE endCrop([d EXCEPT !.eds[id].activeHandle = ""], id, FALSE)
     ELSE IF ed.bgImage = NoImage THEN d
     ELSE [d EXCEPT !.eds[id] =
             [ed EXCEPT !.isDefiningCropArea = TRUE,
                        !.cropBox = [x |-> pos.x, y |-> pos.y, w |-> 0, h |-> 0],
                        !.opStart = pos]]

handleCropPointerMove(ed, pos, shiftKey) ==
  LET dx == pos.x - ed.opStart.x
      dy == pos.y - ed.opStart.y
      name == ed.activeHandle
      start == ed.cropStartBox
      hasL == name \in {"tl", "bl", "ml"}
      hasR == name \in {"tr", "mr", "br"}
      hasT == name \in {"tl", "tm", "tr"}
      hasB == name \in {"br", "bm", "bl"}
      x1 == IF hasL THEN start.x + dx ELSE ed.cropBox.x
      w1 == IF hasL THEN start.w - dx ELSE IF hasR THEN start.w + dx ELSE ed.cropBox.w
      y1 == IF hasT THEN start.y + dy ELSE ed.cropBox.y
      h1 == IF hasT THEN start.h - dy ELSE IF hasB THEN start.h + dy ELSE ed.cropBox.h
      lock == /\ shiftKey /\ name \in {"tl", "tr", "bl", "br"}
              /\ Abs(start.w) > 0 /\ Abs(start.h) > 0
      byWidth == Abs(Abs(w1) - Abs(start.w)) > Abs(Abs(h1) - Abs(start.h))
      h2 == IF lock /\ byWidth
            THEN Sign(h1) * ((Abs(w1) * Abs(start.h)) \div Abs(start.w)) ELSE h1
      w2 == IF lock /\ ~byWidth
            THEN Sign(w1) * ((Abs(h1) * Abs(start.w)) \div Abs(start.h)) ELSE w1
      x2 == IF lock /\ hasL THEN start.x + start.w - w2 ELSE x1
      y2 == IF lock /\ hasT THEN start.y + start.h - h2 ELSE y1
  IN redrawEditor(
       IF ed.isDefiningCropArea
       THEN [ed EXCEPT !.cropBox.w = dx, !.cropBox.h = dy]
       ELSE IF name # ""
       THEN updateCropHandles([ed EXCEPT !.cropBox = [x |-> x2, y |-> y2, w |-> w2, h |-> h2]])
       ELSE IF ed.isMovingCropBox
       THEN updateCropHandles([ed EXCEPT !.cropBox.x = start.x + dx,
                                         !.cropBox.y = start.y + dy])
       ELSE ed)

\* onEditorPointerDown of the editor `id` for a pointer at screen point p.
onEditorPointerDown(d, id, p) ==
  LET d1 == [d EXCEPT !.activeEditorNode = <<id>>]
      pos == getRelativePointerPos(d, id, p)
      d2 == IF d1.eds[id].isCroppingActive THEN endCrop(d1, id, FALSE) ELSE d1
      ed == [d2.eds[id] EXCEPT !.opStart = pos]
      snap == toDataURL(ed)
      stamped == Paint(ed, [op |-> "text", at |-> pos, comp |-> ed.composite])
      d3 ==
        IF d.activeTool = "crop" THEN handleCropPointerDown(d1, id, pos)
        ELSE CASE d.activeTool = "move" ->
                    [d2 EXCEPT !.eds[id] =
                       IF ed.bgImage # NoImage
                       THEN [ed EXCEPT !.isMovingImage = TRUE,
                                       !.moveStart = [pointer |-> pos, image |-> ed.bgImagePos]]
                       ELSE ed]
               [] d.activeTool \in {"pen", "eraser", "mask"} ->
                    [d2 EXCEPT !.eds[id] =
                       [ed EXCEPT !.beforeSnapshot = snap, !.hasSnapshot = TRUE,
                                  !.drawing = TRUE,
                                  !.composite = IF d.activeTool = "eraser"
                                                THEN "destination-out" ELSE "source-over",
                                  !.path = <<pos>>]]
               [] d.activeTool = "text" ->
                    HistoryAdd(
                      [d2 EXCEPT !.eds[id] =
                         [stamped EXCEPT !.beforeSnapshot = snap, !.hasSnapshot = TRUE]],
                      [type |-> "editor:modify", nodeId |-> id, before |-> snap,
                       after |-> toDataURL(stamped),
                       metadata |-> Meta(ed.bgImagePos, ed.bgImageScale),
                       beforeMetadata |-> NoMeta])
               [] d.activeTool = "transform" ->
                    [d2 EXCEPT !.eds[id] =
                       IF ed.bgImage # NoImage
                       THEN [ed EXCEPT !.isTransforming = TRUE,
                                       !.transformStart = [scale |-> ed.bgImageScale,
                                                           y |-> pos.y]]
                       ELSE ed]
               [] OTHER -> [d2 EXCEPT !.eds[id] = ed]
  IN [d3 EXCEPT !.eds[id].listening = TRUE]

\* onEditorPointerMove
onEditorPointerMove(d, id, p, shiftKey) ==
  LET ed == d.eds[id]
      pos == getRelativePointerPos(d, id, p)
      path == Append(ed.path, pos)
      dy == ed.transformStart.y - pos.y
      scaled == (ed.transformStart.scale * (200 + dy)) \div 200
  IN [d EXCEPT !.eds[id] =
        IF ed.isDefiningCropArea \/ ed.isCroppingActive
        THEN handleCropPointerMove(ed, pos, shiftKey)
        ELSE CASE d.activeTool = "move" /\ ed.isMovingImage ->
                    redrawEditor([ed EXCEPT
                      !.bgImagePos = [x |-> ed.moveStart.image.x + pos.x - ed.moveStart.pointer.x,
                                      y |-> ed.moveStart.image.y + pos.y - ed.moveStart.pointer.y]])
               [] d.activeTool \in {"pen", "eraser"} /\ ed.drawing ->
                    IF Len(path) >= 2
                    THEN Paint([ed EXCEPT !.path = path],
                               [op |-> "stroke", path |-> path, comp |-> ed.composite])
                    ELSE [ed EXCEPT !.path = path]
               [] d.activeTool = "transform" /\ ed.isTransforming ->
                    redrawEditor([ed EXCEPT !.bgImageScale = IF scaled < 10 THEN 10 ELSE scaled])
               [] OTHER -> ed]

\* onEditorPointerUp
onEditorPointerUp(d, id) ==
  LET ed == d.eds[id]
      b == ed.cropBox
      norm == [x |-> IF b.w < 0 THEN b.x + b.w ELSE b.x,
               y |-> IF b.h < 0 THEN b.y + b.h ELSE b.y, w |-> Abs(b.w), h |-> Abs(b.h)]
      defined == [ed EXCEPT !.isDefiningCropArea = FALSE, !.cropBox = norm]
      ed1 == IF ed.isDefiningCropArea
             THEN redrawEditor(
                    IF norm.w > 5 /\ norm.h > 5
                    THEN updateCropHandles([defined EXCEPT !.isCroppingActive = TRUE])
                    ELSE [defined EXCEPT !.isCroppingActive = FALSE])
             ELSE ed
      ed2 == [ed1 EXCEPT !.isMovingImage = FALSE, !.isTransforming = FALSE,
                         !.activeHandle = "", !.isMovingCropBox = FALSE]
      after == toDataURL(ed2)
      meta == Meta(ed2.bgImagePos, ed2.bgImageScale)
      ed3 == [ed2 EXCEPT !.drawing = FALSE, !.beforeSnapshot = NoImage,
                         !.hasSnapshot = FALSE, !.composite = "source-over",
                         !.listening = FALSE]
  IN IF ed2.drawing
     THEN IF ~d.guard /\ ed2.hasSnapshot /\ after # ed2.beforeSnapshot
          THEN HistoryAdd([d EXCEPT !.eds[id] = ed3],
                          [type |-> "editor:modify", nodeId |-> id,
                           before |-> ed2.beforeSnapshot, after |-> after,
                           metadata |-> meta, beforeMetadata |-> meta])
          ELSE [d EXCEPT !.eds[id] = ed3]
     ELSE [d EXCEPT !.eds[id] = [ed2 EXCEPT !.listening = FALSE]]

\* loadAndDisplayImage(file): starts the load of the file's image.
loadAndDisplayImage(d, id, img) ==
  [d EXCEPT !.loads = Append(d.loads,
     [kind |-> "upload", nodeId |-> id, src |-> img, metadata |-> NoMeta,
      before |-> NoImage])]

\* The img.onload callback of loadAndDisplayImage.
UploadLoaded(ed, load) == redrawEditor([ed EXCEPT !.bgImage = load.src])

\* An onload callback of endCrop that keeps the placement of the image.
CropLoadedKeepingPlacement(d, load) ==
  HistoryAdd(
    [d EXCEPT !.eds[load.nodeId] =
       redrawEditor([d.eds[load.nodeId] EXCEPT !.bgImage = load.src])],
    [type |-> "editor:modify", nodeId |-> load.nodeId, before |-> load.before,
     after |-> load.src, metadata |-> load.metadata,
     beforeMetadata |-> load.metadata])

\* The newImage.onload callback of endCrop.
CropLoaded(d, load) ==
  HistoryAdd(
    [d EXCEPT !.eds[load.nodeId] =
       redrawEditor([d.eds[load.nodeId] EXCEPT !.bgImage = load.src,
                                               !.bgImagePos = [x |-> 0, y |-> 0],
                                               !.bgImageScale = 100])],
    [type |-> "editor:modify", nodeId |-> load.nodeId, before |-> load.before,
     after |-> load.src, metadata |-> Meta([x |-> 0, y |-> 0], 100),
     beforeMetadata |-> load.metadata])

\* The load at position i of the loads in flight completes.
CompleteLoad(d, i) ==
  LET load == d.loads[i]
      rest == [d EXCEPT !.loads = SubSeq(d.loads, 1, i - 1) \o SubSeq(d.loads, i + 1, Len(d.loads))]
  IN CASE load.kind = "apply" ->
            [rest EXCEPT !.eds[load.nodeId] = ApplyLoaded(d.eds[load.nodeId], load)]
       [] load.kind = "upload" ->
            [rest EXCEPT !.eds[load.nodeId] = UploadLoaded(d.eds[load.nodeId], load)]
       [] OTHER -> CropLoaded(rest, load)

\* The size the ResizeObserver of the editor sees: the content box of its
\* container in CSS pixels, 0 by 0 when the node is not in the document.
ObservedSize(d, id) ==
  LET h == NodeById(d.world, d.elems, id)
  IN <<offsetWidth(d.world, d.elems, h), offsetHeight(d.world, d.elems, h)>>

\* The ResizeObserver callback of the editor.
ResizeObserved(d, id) ==
  LET size == ObservedSize(d, id)
  IN [d EXCEPT !.eds[id] =
        [redrawEditor(resizeEditorCanvas(d.eds[id], size[1], size[2]))
           EXCEPT !.observed = size]]

---------------------------------------------------------------------------
(* The gesture controller of the canvas *)

NoNodeState == [id |-> MakeNodeId("", 0), left |-> 0, top |-> 0, width |-> 0, height |-> 0]

InitPointerAction ==
  [pointerStart |-> <<0, 0>>, panStart |-> <<0, 0>>,
   nodeDragStartPositions |-> <<>>,
   nodeResizeStart |-> [initialWidth |-> 0, initialHeight |-> 0,
                        historyState |-> NoNodeState],
   initialSelectionOnDragStart |-> {},
   lastPointerX |-> 0, lastPointerY |-> 0, updateScheduled |-> FALSE]

handleNodeResizeStart(d, p, target) ==
  [d EXCEPT
     !.isResizingNode = TRUE,
     !.resizedNode = target,
     !.pointerAction.pointerStart = p,
     !.pointerAction.nodeResizeStart =
        [initialWidth |-> offsetWidth(d.world, d.elems, target),
         initialHeight |-> offsetHeight(d.world, d.elems, target),
         historyState |-> [id |-> d.elems[target].id, left |-> d.elems[target].left,
                           top |-> d.elems[target].top, width |-> d.elems[target].width,
                           height |-> d.elems[target].height]]]

handleNodeDragStart(d, p, shiftKey, targetNode, onContent) ==
  IF onContent THEN d
  ELSE LET sel == IF shiftKey
                  THEN toggleNodeSelection(d.selectedNodes, targetNode, d.world)
                  ELSE IF targetNode \notin Range(d.selectedNodes)
                  THEN selectSingleNode(d.selectedNodes, targetNode, d.world)
                  ELSE d.selectedNodes
       IN [d EXCEPT
             !.selectedNodes = sel,
             !.isDraggingNode = TRUE,
             !.pointerAction.pointerStart = p,
             !.pointerAction.nodeDragStartPositions =
                [i \in 1..Len(sel) |->
                   [node |-> sel[i], x |-> offsetLeft(d.world, d.elems, sel[i]),
                    y |-> offsetTop(d.world, d.elems, sel[i])]]]

handleBoxSelectStart(d, p, shiftKey) ==
  LET sel == IF shiftKey THEN d.selectedNodes ELSE clearSelection(d.selectedNodes, d.world)
  IN [d EXCEPT !.isBoxSelecting = TRUE,
               !.cachedNodesForSelection = d.world,
               !.selectedNodes = sel,
               !.pointerAction.initialSelectionOnDragStart = Range(sel),
               !.pointerAction.pointerStart = p]

handlePanStart(d, p, shiftKey) ==
  [d EXCEPT !.isPanning = TRUE,
            !.pointerAction.pointerStart = p,
            !.pointerAction.panStart = <<d.panX, d.panY>>,
            !.selectedNodes = IF shiftKey THEN d.selectedNodes
                              ELSE clearSelection(d.selectedNodes, d.world)]

\* onPointerDown for a primary-button event at p whose target is `part` of the
\* node under p ("resizer", "content", or "header" for the rest of the node), or
\* the canvas when no node is under p.  state.locked is never set by the program.
onPointerDown(d, p, shiftKey, part) ==
  LET targetNode == NodeAt(d, p)
  IN IF targetNode # NoElem /\ part = "resizer"
     THEN handleNodeResizeStart(d, p, targetNode)
     ELSE IF targetNode # NoElem
     THEN handleNodeDragStart(d, p, shiftKey, targetNode, part = "content")
     ELSE IF d.activeTool = "select"
     THEN handleBoxSelectStart(d, p, shiftKey)
     ELSE handlePanStart(d, p, shiftKey)

\* onPointerMove
\* A pointer-move handler that keeps the first position of a frame: it drops
\* the moves that arrive while an update is scheduled.
onPointerMoveKeepingFirst(d, p) ==
  IF d.pointerAction.updateScheduled THEN d
  ELSE [d EXCEPT !.pointerAction.lastPointerX = p[1],
                 !.pointerAction.lastPointerY = p[2],
                 !.pointerAction.updateScheduled = TRUE,
                 !.rafPending = TRUE]

\* onPointerMove.  requestAnimationFrame is called when no update is scheduled;
\* a callback that is already queued (rafPending) finds updateScheduled set and
\* applies the update, and a second queued callback would find it cleared and
\* return, so one pending flag stands for the queue of callbacks.
onPointerMove(d, p) ==
  [d EXCEPT !.pointerAction.lastPointerX = p[1],
            !.pointerAction.lastPointerY = p[2],
            !.pointerAction.updateScheduled = TRUE,
            !.rafPending = TRUE]

Min(a, b) == IF a < b THEN a ELSE b

handleBoxSelectMove(d, p) ==
  LET startPoint == screenToWorld(d, d.pointerAction.pointerStart)
      currentPoint == screenToWorld(d, p)
      boxLeft == Min(startPoint[1], currentPoint[1])
      boxTop == Min(startPoint[2], currentPoint[2])
      boxWidth == Abs(startPoint[1] - currentPoint[1])
      boxHeight == Abs(startPoint[2] - currentPoint[2])
      intersects(n) ==
        /\ boxLeft < Px(offsetLeft(d.world, d.elems, n) + offsetWidth(d.world, d.elems, n))
        /\ boxLeft + boxWidth > Px(offsetLeft(d.world, d.elems, n))
        /\ boxTop < Px(offsetTop(d.world, d.elems, n) + offsetHeight(d.world, d.elems, n))
        /\ boxTop + boxHeight > Px(offsetTop(d.world, d.elems, n))
      nodesToSelect ==
        d.pointerAction.initialSelectionOnDragStart
          \cup {n \in Range(d.cachedNodesForSelection) : intersects(n)}
  IN [d EXCEPT !.selectedNodes = updateNodeSelection(d.selectedNodes, nodesToSelect, d.world)]

\* updatePositions, the requestAnimationFrame callback
updatePositions(d) ==
  IF ~d.pointerAction.updateScheduled THEN d
  ELSE LET pa == d.pointerAction
           dx == pa.lastPointerX - pa.pointerStart[1]
           dy == pa.lastPointerY - pa.pointerStart[2]
           n == d.resizedNode
           resized ==
             [d.elems EXCEPT
                ![n].width = CssSize(@, Px(pa.nodeResizeStart.initialWidth) + DivZoom(dx, d.zoom)),
                ![n].height = CssSize(@, Px(pa.nodeResizeStart.initialHeight) + DivZoom(dy, d.zoom))]
           id == d.elems[n].id
           size == ContainerClientSize(d.world, resized, NodeById(d.world, resized, id), d.zoom)
           starts == pa.nodeDragStartPositions
           dragged ==
             [h \in DOMAIN d.elems |->
                IF \E i \in 1..Len(starts) : starts[i].node = h
                THEN LET i == CHOOSE i \in 1..Len(starts) : starts[i].node = h
                     IN [d.elems[h] EXCEPT !.left = Px(starts[i].x) + DivZoom(dx, d.zoom),
                                           !.top = Px(starts[i].y) + DivZoom(dy, d.zoom)]
                ELSE d.elems[h]]
           moved ==
             IF d.isResizingNode
             THEN IF id \in DOMAIN d.eds
                  THEN [d EXCEPT !.elems = resized,
                                 !.eds[id] = redrawEditor(
                                    resizeEditorCanvas(d.eds[id], size[1], size[2]))]
                  ELSE [d EXCEPT !.elems = resized]
             ELSE IF d.isDraggingNode THEN [d EXCEPT !.elems = dragged]
             ELSE IF d.isBoxSelecting
             THEN handleBoxSelectMove(d, <<pa.lastPointerX, pa.lastPointerY>>)
             ELSE IF d.isPanning
             THEN [d EXCEPT !.panX = pa.panStart[1] + dx, !.panY = pa.panStart[2] + dy]
             ELSE d
       IN [moved EXCEPT !.pointerAction.updateScheduled = FALSE]

\* onPointerUp up to its last statement: the resize, drag and box-select
\* branches.
EndNodeGestures(d) ==
  LET d0 == [d EXCEPT !.pointerAction.updateScheduled = FALSE]
      starts == d.pointerAction.nodeDragStartPositions
      d1 == IF d0.isResizingNode
            THEN [HistoryAdd(d0, [type |-> "resize",
                                  before |-> <<d.pointerAction.nodeResizeStart.historyState>>,
                                  after |-> captureNodeState(d.elems, <<d.resizedNode>>)])
                    EXCEPT !.isResizingNode = FALSE, !.resizedNode = NoElem]
            ELSE d0
      beforeState ==
        [i \in 1..Len(starts) |->
           [id |-> d.elems[starts[i].node].id,
            left |-> Px(starts[i].x), top |-> Px(starts[i].y),
            width |-> d.elems[starts[i].node].width,
            height |-> d.elems[starts[i].node].height]]
      d2 == IF d1.isDraggingNode
            THEN [HistoryAdd(d1, [type |-> "move", before |-> beforeState,
                                  after |-> captureNodeState(d.elems, d.selectedNodes)])
                    EXCEPT !.isDraggingNode = FALSE]
            ELSE d1
  IN IF d2.isBoxSelecting
     THEN [d2 EXCEPT !.isBoxSelecting = FALSE, !.cachedNodesForSelection = <<>>]
     ELSE d2

\* A pointer-up that leaves the panning flag as it is.
onPointerUpKeepingPan(d) == EndNodeGestures(d)

\* A pointer-up that records the gesture first and applies the scheduled update
\* after it.
onPointerUpBeforeUpdate(d) ==
  [EndNodeGestures(d) EXCEPT !.isPanning = FALSE, !.elems = updatePositions(d).elems]

\* onPointerUp
onPointerUp(d) == [EndNodeGestures(d) EXCEPT !.isPanning = FALSE]

---------------------------------------------------------------------------
(* Zoom and the minimap *)

\* A setTransform that records the change of the view in the history.
setTransformRecorded(d, x, y, z) ==
  HistoryAdd([d EXCEPT !.panX = x, !.panY = y, !.zoom = z],
             [type |-> "move", before |-> <<>>, after |-> <<>>])

\* setTransform({panX, panY, zoom})
setTransform(d, x, y, z) ==
  [d EXCEPT !.panX = x, !.panY = y, !.zoom = z]

\* A pan that zooming leaves as it is.
zoomPanUnanchored(pan, mouse, prevZoom, z) == [num |-> pan, den |-> 1]

\* zoomTo's pan on one axis, mouse - ((mouse - pan) / prevZoom) * zoom, as a
\* fraction of pixels.
zoomPan(pan, mouse, prevZoom, z) ==
  [num |-> mouse * prevZoom - (mouse - pan) * z, den |-> prevZoom]

\* The pivot of zoomTo: the given point, or the centre of the canvas when
\* center is null (<<>> here).
ZoomPivot(center) ==
  IF center = <<>> THEN <<ViewportW \div 2, ViewportH \div 2>> ELSE center

\* zoomTo(nextZoom, center), with the pan in whole pixels.
zoomTo(d, nextZoom, center) ==
  LET prevZoom == d.zoom
      z == clamp(nextZoom, ZoomMinTenths, ZoomMaxTenths)
      mouse == ZoomPivot(center)
      x == zoomPan(d.panX, mouse[1], prevZoom, z)
      y == zoomPan(d.panY, mouse[2], prevZoom, z)
  IN IF z = prevZoom THEN d
     ELSE setTransform(d, x.num \div x.den, y.num \div y.den, z)

\* The pan zoomTo computes is a whole number of pixels on both axes.
WholePixels(d, nextZoom, center) ==
  LET z == clamp(nextZoom, ZoomMinTenths, ZoomMaxTenths)
      mouse == ZoomPivot(center)
      x == zoomPan(d.panX, mouse[1], d.zoom, z)
      y == zoomPan(d.panY, mouse[2], d.zoom, z)
  IN x.num % x.den = 0 /\ y.num % y.den = 0

\* onWheel for a wheel event at p with vertical delta deltaY.
onWheel(d, p, deltaY) ==
  LET factor == IF -deltaY > 0 THEN 1 ELSE -1
  IN zoomTo(d, d.zoom + factor * ZoomStepTenths, p)

\* onMinimapClick for a click at the fraction (fx/4, fy/4) of the minimap's box.
onMinimapClick(d, fx, fy) ==
  LET targetWorldX == (fx * WorldW) \div 4
      targetWorldY == (fy * WorldH) \div 4
  IN setTransform(d, ViewportW \div 2 - (targetWorldX * d.zoom) \div 10,
                     ViewportH \div 2 - (targetWorldY * d.zoom) \div 10, d.zoom)

\* The pan init() computes for a zoom: the world centred in the viewport.
CentredPan(z) ==
  <<ViewportW \div 2 - (WorldW * z) \div 20, ViewportH \div 2 - (WorldH * z) \div 20>>

---------------------------------------------------------------------------
\* The arrow-key branch of handleKeyboard
nudge(d, key, shiftKey) ==
  LET delta == IF shiftKey THEN 10 ELSE 1
      sel == d.selectedNodes
      el == [h \in DOMAIN d.elems |->
               IF h \in Range(sel)
               THEN [d.elems[h] EXCEPT
                       !.left = Px(offsetLeft(d.world, d.elems, h)
                                   + (IF key = "ArrowLeft" THEN -delta
                                      ELSE IF key = "ArrowRight" THEN delta ELSE 0)),
                       !.top = Px(offsetTop(d.world, d.elems, h)
                                  + (IF key = "ArrowUp" THEN -delta
                                     ELSE IF key = "ArrowDown" THEN delta ELSE 0))]
               ELSE d.elems[h]]
  IN HistoryAdd([d EXCEPT !.elems = el],
                [type |-> "move", before |-> captureNodeState(d.elems, sel),
                 after |-> captureNodeState(el, sel)])

ArrowKeys == {"ArrowUp", "ArrowDown", "ArrowLeft", "ArrowRight"}

\* handleKeyboard for a key pressed outside a text field
handleKeyboard(d, key, ctrlKey, shiftKey) ==
  LET cropping == /\ d.activeEditorNode # <<>>
                  /\ \/ d.eds[d.activeEditorNode[1]].isCroppingActive
                     \/ d.eds[d.activeEditorNode[1]].isDefiningCropArea
      d1 == IF ctrlKey /\ key = "z" THEN HistoryUndo(d, d.zoom)
            ELSE IF ctrlKey /\ key = "y" THEN HistoryRedo(d, d.zoom)
            ELSE d
  IN IF cropping
     THEN IF key = "Enter" THEN endCrop(d, d.activeEditorNode[1], TRUE)
          ELSE IF key = "Escape" THEN endCrop(d, d.activeEditorNode[1], FALSE)
          ELSE d
     ELSE IF d1.selectedNodes # <<>> /\ key \in ArrowKeys
     THEN nudge(d1, key, shiftKey)
     ELSE d1

\* The click handler of the top toolbar for the button of `tool`
selectTool(d, tool) ==
  LET d1 == IF d.activeTool = "crop" /\ tool # "crop" /\ d.activeEditorNode # <<>>
            THEN endCrop(d, d.activeEditorNode[1], FALSE)
            ELSE d
  IN [d1 EXCEPT !.activeTool = tool]

---------------------------------------------------------------------------
(* The state as a record, and its assignment *)

Doc ==
  [now |-> now, world |-> world, elems |-> elems, selectedNodes |-> selectedNodes,
   activeTool |-> activeTool, zoom |-> zoom, panX |-> panX, panY |-> panY,
   isPanning |-> isPanning, isBoxSelecting |-> isBoxSelecting,
   isDraggingNode |-> isDraggingNode, isResizingNode |-> isResizingNode,
   resizedNode |-> resizedNode, pointerAction |-> pointerAction,
   rafPending |-> rafPending, cachedNodesForSelection |-> cachedNodesForSelection,
   stack |-> stack, index |-> index, guard |-> isApplyingHistory,
   undoDisabled |-> undoDisabled, redoDisabled |-> redoDisabled,
   eds |-> editor2dInstances, activeEditorNode |-> activeEditorNode,
   loads |-> imageLoads]

\* A value the program never reads again before writing it is replaced by its
\* initial value, so that two states that differ only in such values are one
\* state: the start data of a gesture once the gesture's flag is cleared, the
\* last pointer position once no update is scheduled, and likewise the gesture
\* data of an editor.  (Every read of these fields in the program is under the
\* flag named here.)
ForgetEditor(ed) ==
  LET cropping == ed.isCroppingActive \/ ed.isDefiningCropArea
      adjusting == ed.activeHandle # "" \/ ed.isMovingCropBox
      fresh == NewEditor(ed.nodeId)
  IN [ed EXCEPT
        !.moveStart = IF ed.isMovingImage THEN @ ELSE fresh.moveStart,
        !.transformStart = IF ed.isTransforming THEN @ ELSE fresh.transformStart,
        !.opStart = IF ed.isDefiningCropArea \/ adjusting THEN @ ELSE fresh.opStart,
        !.cropStartBox = IF adjusting THEN @ ELSE fresh.cropStartBox,
        !.cropBox = IF cropping THEN @ ELSE fresh.cropBox,
        !.handles = IF ed.isCroppingActive THEN @ ELSE fresh.handles,
        !.beforeSnapshot = IF ed.drawing THEN @ ELSE fresh.beforeSnapshot,
        !.hasSnapshot = IF ed.drawing THEN @ ELSE fresh.hasSnapshot,
        !.path = IF ed.drawing THEN @ ELSE fresh.path]

Forget(d) ==
  LET pa == d.pointerAction
      busy == d.isPanning \/ d.isBoxSelecting \/ d.isDraggingNode \/ d.isResizingNode
  IN [d EXCEPT
        !.pointerAction =
           [pointerStart |-> IF busy THEN pa.pointerStart ELSE InitPointerAction.pointerStart,
            panStart |-> IF d.isPanning THEN pa.panStart ELSE InitPointerAction.panStart,
            nodeDragStartPositions |-> IF d.isDraggingNode THEN pa.nodeDragStartPositions
                                       ELSE <<>>,
            nodeResizeStart |-> IF d.isResizingNode THEN pa.nodeResizeStart
                                ELSE InitPointerAction.nodeResizeStart,
            initialSelectionOnDragStart |-> IF d.isBoxSelecting
                                            THEN pa.initialSelectionOnDragStart ELSE {},
            lastPointerX |-> IF pa.updateScheduled THEN pa.lastPointerX ELSE 0,
            lastPointerY |-> IF pa.updateScheduled THEN pa.lastPointerY ELSE 0,
            updateScheduled |-> pa.updateScheduled],
        !.cachedNodesForSelection = IF d.isBoxSelecting THEN @ ELSE <<>>,
        !.eds = [id \in DOMAIN d.eds |-> ForgetEditor(d.eds[id])]]

\* An element no variable refers to any more is reclaimed.
Collect(d) ==
  LET f == Forget(d)
  IN [f EXCEPT !.elems = Restrict(f.elems,
        Referenced(f.world, f.selectedNodes, f.resizedNode, f.pointerAction,
                   f.cachedNodesForSelection))]

\* How deeply pictures are nested in a picture: a picture painted from another
\* picture holds it.
RECURSIVE Depth(_)
Depth(img) ==
  LET inner == {i \in 1..Len(img.layers) : img.layers[i].op = "image"}
      depths == {Depth(img.layers[i].img) : i \in inner}
  IN IF inner = {} THEN 0
     ELSE 1 + (CHOOSE m \in depths : \A n \in depths : m >= n)

\* The part of the state space the model explores.
Bounded(d) ==
  /\ DOMAIN d.elems \subseteq Handles
  /\ Len(d.world) <= MaxNodes
  /\ Len(d.stack) <= MaxHist
  /\ Len(d.loads) <= MaxLoads
  \* the pan stays near (0,0) or near the pan that centres the world
  /\ \E c \in {<<0, 0>>, CentredPan(d.zoom)} :
       Abs(d.panX - c[1]) <= MaxPan /\ Abs(d.panY - c[2]) <= MaxPan
  /\ \A h \in DOMAIN d.elems :
       \* a node of the document stays in a window of the viewport
       LET onScreen(v) == h \in Range(d.world) =>
                            /\ v * d.zoom >= Px(MinScreenPx) * 10
                            /\ v * d.zoom <= Px(MaxScreenPx) * 10
       IN /\ d.elems[h].left >= 0 /\ onScreen(d.elems[h].left)
          /\ d.elems[h].top >= 0 /\ onScreen(d.elems[h].top)
          /\ d.elems[h].left <= Px(MaxScreenPx) * 10
          /\ d.elems[h].top <= Px(MaxScreenPx) * 10
          /\ d.elems[h].width = Auto
               \/ Abs(d.elems[h].width - Px(NodeWidthPx)) <= Px(MaxGrowPx)
          /\ d.elems[h].height = Auto
               \/ Abs(d.elems[h].height - Px(AutoHeightPx)) <= Px(MaxGrowPx)
  /\ \A id \in DOMAIN d.eds :
       /\ Len(d.eds[id].bitmap) <= MaxLayers
       /\ Len(d.eds[id].path) <= MaxPath
       /\ Abs(d.eds[id].bgImagePos.x) <= MaxPan /\ Abs(d.eds[id].bgImagePos.y) <= MaxPan
       /\ Abs(d.eds[id].cropBox.x) <= MaxCropPx /\ Abs(d.eds[id].cropBox.y) <= MaxCropPx
       /\ Abs(d.eds[id].cropBox.w) <= MaxCropPx /\ Abs(d.eds[id].cropBox.h) <= MaxCropPx
       /\ Depth(toDataURL(d.eds[id])) <= MaxDepth
       /\ Depth(d.eds[id].bgImage) <= MaxDepth

SetDoc(d) ==
  \E c \in {Collect(d)} :
     /\ Bounded(c)
     /\ now' = c.now
     /\ world' = c.world
     /\ elems' = c.elems
     /\ selectedNodes' = c.selectedNodes
     /\ activeTool' = c.activeTool
     /\ zoom' = c.zoom
     /\ panX' = c.panX
     /\ panY' = c.panY
     /\ isPanning' = c.isPanning
     /\ isBoxSelecting' = c.isBoxSelecting
     /\ isDraggingNode' = c.isDraggingNode
     /\ isResizingNode' = c.isResizingNode
     /\ resizedNode' = c.resizedNode
     /\ pointerAction' = c.pointerAction
     /\ rafPending' = c.rafPending
     /\ cachedNodesForSelection' = c.cachedNodesForSelection
     /\ stack' = c.stack
     /\ index' = c.index
     /\ isApplyingHistory' = c.guard
     /\ undoDisabled' = c.undoDisabled
     /\ redoDisabled' = c.redoDisabled
     /\ editor2dInstances' = c.eds
     /\ activeEditorNode' = c.activeEditorNode
     /\ imageLoads' = c.loads

---------------------------------------------------------------------------
(* Events *)

\* The editors whose window listeners (pointermove, pointerup) are installed.
Listening(d) == {id \in DOMAIN d.eds : d.eds[id].listening}

RECURSIVE EditorsPointerMove(_, _, _, _)
EditorsPointerMove(d, ids, p, shiftKey) ==
  IF ids = {} THEN d
  ELSE LET id == CHOOSE i \in ids : TRUE
       IN EditorsPointerMove(onEditorPointerMove(d, id, p, shiftKey), ids \ {id}, p, shiftKey)

RECURSIVE EditorsPointerUp(_, _)
EditorsPointerUp(d, ids) ==
  IF ids = {} THEN d
  ELSE LET id == CHOOSE i \in ids : TRUE
       IN EditorsPointerUp(onEditorPointerUp(d, id), ids \ {id})

\* A click on the toolbar button of `tool`.
SelectTool(tool) ==
  /\ tool # activeTool
  /\ SetDoc(selectTool(Doc, tool))

\* showAddNodeMenu at p (not over a node), then a click on the menu's button for
\* `type`: createNode(type, worldX, worldY).  t is what Date.now() returns: the
\* clock never runs backwards, and `now` is its value when it was last read.
AddNode(p, type, t) ==
  /\ NodeAt(Doc, p) = NoElem
  /\ Handles \ DOMAIN elems # {}
  /\ t >= now
  /\ LET wp == screenToWorld(Doc, p)
     IN SetDoc(createNode([Doc EXCEPT !.now = t], type, wp[1], wp[2], FALSE, NoNodeState, t))

\* A primary-button pointerdown that reaches the canvas: on the canvas itself, or
\* on a part of a node that lets it bubble (the content of an image-upload node
\* and of an image-editor node stop it).
PointerDown(p, shiftKey, part) ==
  /\ \/ NodeAt(Doc, p) = NoElem /\ part = "header"
     \/ NodeAt(Doc, p) # NoElem /\ part \in {"header", "resizer"}
     \/ /\ NodeAt(Doc, p) # NoElem /\ part = "content"
        /\ elems[NodeAt(Doc, p)].id.kind = "text"
  /\ SetDoc(onPointerDown(Doc, p, shiftKey, part))

\* A pointerdown on the content of an image-editor node.
EditorPointerDown(p) ==
  /\ NodeAt(Doc, p) # NoElem
  /\ elems[NodeAt(Doc, p)].id.kind = "image-editor"
  /\ elems[NodeAt(Doc, p)].id \in DOMAIN editor2dInstances
  /\ SetDoc(onEditorPointerDown(Doc, elems[NodeAt(Doc, p)].id, p))

\* A pointermove: the window listeners are onPointerMove and the
\* onEditorPointerMove of every editor that is listening.
PointerMove(p, shiftKey) ==
  SetDoc(EditorsPointerMove(onPointerMove(Doc, p), Listening(Doc), p, shiftKey))

\* An animation frame: the queued updatePositions callback runs.
FrameTick ==
  /\ rafPending
  /\ SetDoc(updatePositions([Doc EXCEPT !.rafPending = FALSE]))

\* A pointerup: onPointerUp and the onEditorPointerUp of every listening editor.
PointerUp ==
  SetDoc(EditorsPointerUp(onPointerUp(Doc), Listening(Doc)))

KeyDown(key, ctrlKey, shiftKey) ==
  /\ ctrlKey <=> key \in {"z", "y"}
  /\ shiftKey => key \in ArrowKeys
  /\ SetDoc(handleKeyboard(Doc, key, ctrlKey, shiftKey))

\* A click on the undo button; a disabled button fires no click.
UndoClick ==
  /\ ~undoDisabled
  /\ SetDoc(HistoryUndo(Doc, zoom))

\* A click on the redo button.
RedoClick ==
  /\ ~redoDisabled
  /\ SetDoc(HistoryRedo(Doc, zoom))

\* A wheel event over the canvas at p.
Wheel(p, deltaY) ==
  /\ WholePixels(Doc, zoom + (IF -deltaY > 0 THEN 1 ELSE -1) * ZoomStepTenths, p)
  /\ SetDoc(onWheel(Doc, p, deltaY))

\* A click on the zoom-in button.
ZoomInClick ==
  /\ WholePixels(Doc, zoom + ZoomStepTenths, <<>>)
  /\ SetDoc(zoomTo(Doc, zoom + ZoomStepTenths, <<>>))

\* A click on the zoom-out button.
ZoomOutClick ==
  /\ WholePixels(Doc, zoom - ZoomStepTenths, <<>>)
  /\ SetDoc(zoomTo(Doc, zoom - ZoomStepTenths, <<>>))

\* A click on the minimap.
MinimapClick(fx, fy) == SetDoc(onMinimapClick(Doc, fx, fy))

\* The user gives an image file to an image-editor node (file input or drop).
Upload(id, img) ==
  /\ NodeById(world, elems, id) # NoElem
  /\ SetDoc(loadAndDisplayImage(Doc, id, img))

\* An image load completes; loads complete in any order.
LoadDone(i) == SetDoc(CompleteLoad(Doc, i))

\* A click on the crop confirm button of an editor.
CropConfirm(id) ==
  /\ NodeById(world, elems, id) # NoElem
  /\ editor2dInstances[id].isCroppingActive
  /\ SetDoc(endCrop(Doc, id, TRUE))

\* The ResizeObserver of an editor reports a new size of its container.
ObserveResize(id) ==
  /\ ObservedSize(Doc, id) # editor2dInstances[id].observed
  /\ SetDoc(ResizeObserved(Doc, id))

---------------------------------------------------------------------------
(* Initial state *)

\* The state after init() in a viewport of 2400 by 1800 px, for which the
\* initial pan is (0,0), with the zoom at z tenths.  The disabled attributes of
\* the undo and redo buttons come from the page, which init() leaves as it is.
InitAt(z) ==
  /\ now = 0
  /\ world = <<>>
  /\ elems = [h \in {} |-> NoNodeState]
  /\ selectedNodes = <<>>
  /\ activeTool = "move"
  /\ zoom = z
  /\ panX = 0
  /\ panY = 0
  /\ isPanning = FALSE
  /\ isBoxSelecting = FALSE
  /\ isDraggingNode = FALSE
  /\ isResizingNode = FALSE
  /\ resizedNode = NoElem
  /\ pointerAction = InitPointerAction
  /\ rafPending = FALSE
  /\ cachedNodesForSelection = <<>>
  /\ stack = <<>>
  /\ index = -1
  /\ isApplyingHistory = FALSE
  /\ undoDisabled \in BOOLEAN
  /\ redoDisabled \in BOOLEAN
  /\ editor2dInstances = [id \in {} |-> NewEditor(MakeNodeId("", 0))]
  /\ activeEditorNode = <<>>
  /\ imageLoads = <<>>

\* Some canvas gesture is in progress.
InGesture == isPanning \/ isBoxSelecting \/ isDraggingNode \/ isResizingNode

---------------------------------------------------------------------------
(* Specification of the history: nodes of every kind are created at one      *)
(* place and dragged with a mouse, and the operations are undone and redone  *)

Init == InitAt(InitialZoomTenths)

\* The input is a mouse: its primary button goes down only when it is up, the
\* moves enumerated are those made with the button down, and a menu entry or a
\* button is clicked only between gestures.  The button goes down on the header
\* of a node.
Next ==
  \/ \E type \in Kinds, t \in 0..MaxTime : ~InGesture /\ AddNode(<<100, 100>>, type, t)
  \/ \E p \in Points :
       ~InGesture /\ NodeAt(Doc, p) # NoElem /\ PointerDown(p, FALSE, "header")
  \/ \E p \in Points : InGesture /\ PointerMove(p, FALSE)
  \/ FrameTick
  \/ InGesture /\ PointerUp
  \/ ~InGesture /\ UndoClick
  \/ ~InGesture /\ RedoClick

Spec == Init /\ [][Next]_vars

---------------------------------------------------------------------------
(* Specification of the gestures: one text node, both canvas tools, a mouse  *)
(* whose button goes down on the canvas or on any part of the node           *)

CanvasTools == {"move", "select"}

GestureNext ==
  \/ \E tool \in CanvasTools : ~InGesture /\ SelectTool(tool)
  \/ \E t \in 0..MaxTime : ~InGesture /\ AddNode(<<100, 100>>, "text", t)
  \/ \E p \in Points, shiftKey \in BOOLEAN, part \in {"header", "resizer", "content"} :
       ~InGesture /\ PointerDown(p, shiftKey, part)
  \/ \E p \in Points : InGesture /\ PointerMove(p, FALSE)
  \/ FrameTick
  \/ InGesture /\ PointerUp

GestureSpec == Init /\ [][GestureNext]_vars

---------------------------------------------------------------------------
(* Specification of touch input: several pointers, so that a pointer may go  *)
(* down while another is already down                                        *)

TouchNext ==
  \/ \E t \in 0..MaxTime : ~InGesture /\ AddNode(<<100, 100>>, "text", t)
  \/ \E p \in Points : PointerDown(p, FALSE, "header")
  \/ \E p \in Points : InGesture /\ PointerMove(p, FALSE)
  \/ FrameTick
  \/ PointerUp

TouchSpec == Init /\ [][TouchNext]_vars

---------------------------------------------------------------------------
(* Specification at zoom 1: the canvas after the zoom has been brought to 1  *)
(* and the pan back to (0,0); one text node, dragged with a mouse, with undo *)
(* and redo from the keyboard                                                *)

UnitZoomTenths == 10

UnitInit == InitAt(UnitZoomTenths)

UnitNext ==
  \/ \E t \in 0..MaxTime : ~InGesture /\ AddNode(<<100, 100>>, "text", t)
  \/ \E p \in Points :
       ~InGesture /\ NodeAt(Doc, p) # NoElem /\ PointerDown(p, FALSE, "header")
  \/ \E p \in Points : InGesture /\ PointerMove(p, FALSE)
  \/ FrameTick
  \/ InGesture /\ PointerUp
  \/ \E key \in {"z", "y"} : KeyDown(key, TRUE, FALSE)

UnitSpec == UnitInit /\ [][UnitNext]_vars

---------------------------------------------------------------------------
(* Specification of the earlier variant of the history (lines 47-142 of the  *)
(* file), whose undo() and redo() hand the release of the guard to a timer:  *)
(* one text node, created, dragged with a mouse, undone and redone           *)

\* history.undo of the earlier variant: the replay of history.undo, after which
\* the guard stays set until the timer started by the call fires.
LegacyUndo(d, z) ==
  IF d.index < 0 THEN d ELSE [HistoryUndo(d, z) EXCEPT !.guard = TRUE]

\* history.redo of the earlier variant.
LegacyRedo(d, z) ==
  IF d.index >= Len(d.stack) - 1 THEN d ELSE [HistoryRedo(d, z) EXCEPT !.guard = TRUE]

LegacyUndoClick ==
  /\ ~undoDisabled
  /\ SetDoc(LegacyUndo(Doc, zoom))

LegacyRedoClick ==
  /\ ~redoDisabled
  /\ SetDoc(LegacyRedo(Doc, zoom))

\* setTimeout(() => isApplyingHistory = false, 50): a timer started by undo() or
\* redo() fires.  A timer is pending whenever the guard is set.
HistoryTimer ==
  /\ isApplyingHistory
  /\ SetDoc([Doc EXCEPT !.guard = FALSE])

LegacyNext ==
  \/ \E t \in 0..MaxTime : ~InGesture /\ AddNode(<<100, 100>>, "text", t)
  \/ \E p \in Points :
       ~InGesture /\ NodeAt(Doc, p) # NoElem /\ PointerDown(p, FALSE, "header")
  \/ \E p \in Points : InGesture /\ PointerMove(p, FALSE)
  \/ FrameTick
  \/ InGesture /\ PointerUp
  \/ ~InGesture /\ LegacyUndoClick
  \/ ~InGesture /\ LegacyRedoClick
  \/ HistoryTimer

LegacySpec == Init /\ [][LegacyNext]_vars

---------------------------------------------------------------------------
(* Specification of the raster editor: one image-editor node, one uploaded   *)
(* image, the move, pen, text and crop tools used with a mouse, undo, redo   *)

EditorTools == {"move", "pen", "text", "crop"}

\* The image files the user has.
Files == {FileImage("a", 100, 100)}

\* An editor gesture is in progress: the window listeners of an editor are installed.
InEditorGesture == Listening(Doc) # {}

\* The user acts on a page that has settled: every ResizeObserver has reported
\* the size of its container, no image load is in flight and the mouse button is
\* up.  (A load of an encoded snapshot and a resize observation complete within
\* a frame.)
Settled ==
  /\ ~InEditorGesture
  /\ imageLoads = <<>>
  /\ \A id \in DOMAIN editor2dInstances : ObservedSize(Doc, id) = editor2dInstances[id].observed

EditorNext ==
  \/ \E t \in 0..MaxTime : Settled /\ AddNode(<<100, 100>>, "image-editor", t)
  \/ \E id \in DOMAIN editor2dInstances : ObserveResize(id)
  \/ \E id \in DOMAIN editor2dInstances, img \in Files :
       Settled /\ editor2dInstances[id].bgImage = NoImage /\ Upload(id, img)
  \/ \E i \in 1..Len(imageLoads) : LoadDone(i)
  \/ \E tool \in EditorTools : Settled /\ SelectTool(tool)
  \/ \E p \in Points : Settled /\ EditorPointerDown(p)
  \/ \E p \in Points : InEditorGesture /\ PointerMove(p, FALSE)
  \/ FrameTick
  \/ InEditorGesture /\ PointerUp
  \/ Settled /\ UndoClick
  \/ Settled /\ RedoClick
  \/ \E id \in DOMAIN editor2dInstances : Settled /\ CropConfirm(id)

EditorSpec == Init /\ [][EditorNext]_vars

---------------------------------------------------------------------------
(* Specification of the box selection: the select tool, one text node created *)
(* at (120,120), and a mouse whose button goes down on the node's header or   *)
(* on the canvas beside it and moves beside the node or past its far corner   *)

\* The node created at (120,120) covers 168 by 96 px of the screen at the
\* initial zoom: (100,100) and (110,110) lie beside it and (300,300) past it.
BoxPoints == {<<100, 100>>, <<110, 110>>, <<300, 300>>}

BoxNext ==
  \/ ~InGesture /\ SelectTool("select")
  \/ \E t \in 0..MaxTime : ~InGesture /\ AddNode(<<120, 120>>, "text", t)
  \/ \E p \in BoxPoints \cup {<<120, 120>>}, shiftKey \in BOOLEAN :
       ~InGesture /\ activeTool = "select" /\ PointerDown(p, shiftKey, "header")
  \/ \E p \in BoxPoints : InGesture /\ PointerMove(p, FALSE)
  \/ FrameTick
  \/ InGesture /\ PointerUp

BoxSpec == Init /\ [][BoxNext]_vars

---------------------------------------------------------------------------
(* Specification of the view: wheel events, the zoom buttons, minimap clicks *)
(* and pans with a mouse, and one text node whose creation is undone and     *)
(* redone                                                                    *)

\* The wheel turns over the canvas's corner or over (120,120).
WheelPoints == {<<0, 0>>, <<120, 120>>}

WheelDeltas == {-100, 100}

\* The clicks on the minimap: at a quarter and at half of its box, on both axes.
MinimapFractions == {1, 2}

\* The view init() sets.
InitialView == zoom = InitialZoomTenths /\ panX = 0 /\ panY = 0

\* The node is added in the initial view; the view changes before and after.
ViewNext ==
  \/ \E t \in 0..MaxTime :
       ~InGesture /\ InitialView /\ AddNode(<<100, 100>>, "text", t)
  \/ \E p \in Points :
       ~InGesture /\ NodeAt(Doc, p) = NoElem /\ PointerDown(p, FALSE, "header")
  \/ \E p \in Points : InGesture /\ PointerMove(p, FALSE)
  \/ FrameTick
  \/ InGesture /\ PointerUp
  \/ \E p \in WheelPoints, deltaY \in WheelDeltas : ~InGesture /\ Wheel(p, deltaY)
  \/ ~InGesture /\ ZoomInClick
  \/ ~InGesture /\ ZoomOutClick
  \/ \E f \in MinimapFractions : ~InGesture /\ MinimapClick(f, f)
  \/ ~InGesture /\ UndoClick
  \/ ~InGesture /\ RedoClick

ViewSpec == Init /\ [][ViewNext]_vars

---------------------------------------------------------------------------
(* Properties of the history *)

\* Every image load in flight completes, the oldest first.
RECURSIVE CompleteLoads(_)
CompleteLoads(d) == IF d.loads = <<>> THEN d ELSE CompleteLoads(CompleteLoad(d, 1))

\* The node registry: the id, position and size of every node of the document.
Registry(d) == Range(captureNodeState(d.elems, d.world))

\* What every raster editor shows: background image, bitmap, image position and
\* image scale.
EditorContent(d) ==
  [id \in DOMAIN d.eds |->
     [bgImage |-> d.eds[id].bgImage, bitmap |-> d.eds[id].bitmap,
      bgImagePos |-> d.eds[id].bgImagePos, bgImageScale |-> d.eds[id].bgImageScale]]

\* The program at rest: no gesture in progress and no image load in flight.
AtRest == ~InGesture /\ imageLoads = <<>>

\* Actions a caller may push: one of each kind that the canvas records.
SampleActions ==
  {[type |-> ty, before |-> <<>>,
    after |-> <<[id |-> MakeNodeId("text", 0), left |-> Px(100), top |-> Px(100),
                 width |-> Px(NodeWidthPx), height |-> Auto]>>] :
     ty \in {"create", "move", "resize"}}

\* C1: in every state at rest with cursor >= 0, undo() then redo(), with the image
\* loads they start completed, leaves the node registry, every editor's background
\* image, bitmap, image position and image scale, the stack and the cursor as they
\* were before the pair.
C1_UndoRedoRoundTrip ==
  (AtRest /\ index >= 0) =>
     LET u == CompleteLoads(HistoryUndo(Doc, zoom))
         r == CompleteLoads(HistoryRedo(u, zoom))
     IN /\ Registry(r) = Registry(Doc)
        /\ EditorContent(r) = EditorContent(Doc)
        /\ r.stack = stack
        /\ r.index = index

\* C2: a push made while the guard is inactive gives the entries up to the cursor
\* followed by the new action, with the cursor on the last entry; so a push made
\* after an undo() discards the undone tail, leaves redo() a no-op and the redo
\* button disabled.
C2_PushTruncatesTail ==
  ~isApplyingHistory =>
     \A a \in SampleActions :
        LET r == HistoryAdd(Doc, a)
            u == HistoryUndo(Doc, zoom)
            ur == HistoryAdd(u, a)
        IN /\ r.stack = Append(SubSeq(stack, 1, index + 1), a)
           /\ r.index = Len(r.stack) - 1
           /\ r.redoDisabled
           /\ HistoryRedo(r, zoom) = r
           /\ ur.stack = Append(SubSeq(stack, 1, u.index + 1), a)
           /\ ur.index = Len(ur.stack) - 1
           /\ ur.redoDisabled
           /\ HistoryRedo(ur, zoom) = ur

\* A push has discarded an undone tail: the history holds one entry, for the node
\* of the document, and an element removed by an undone create is still selected.
C2_PushedAfterUndo ==
  /\ Len(stack) = 1 /\ index = 0 /\ redoDisabled
  /\ Len(world) = 1
  /\ \E h \in Range(selectedNodes) : h \notin Range(world)

\* The cursor after undo() and after redo() in a state with cursor i and n entries.
CursorAfterUndo(i) == IF i >= 0 THEN i - 1 ELSE i

CursorAfterRedo(i, n) == IF i < n - 1 THEN i + 1 ELSE i

\* C3: undo() and redo() leave the sequence of actions in the stack as it was and
\* move the cursor by exactly one when there is an action to replay, and not at
\* all otherwise (undo() at cursor -1, redo() at the tail); a push attempted while
\* the guard is active leaves stack and cursor unchanged.
C3_ReplayRecordsNothing ==
  LET u == HistoryUndo(Doc, zoom)
      r == HistoryRedo(Doc, zoom)
  IN /\ u.stack = stack /\ u.index = CursorAfterUndo(index)
     /\ r.stack = stack /\ r.index = CursorAfterRedo(index, Len(stack))
     /\ \A a \in SampleActions :
          LET g == HistoryAdd([Doc EXCEPT !.guard = TRUE], a)
          IN g.stack = stack /\ g.index = index

\* An undo has been replayed: the cursor is before the last of two entries.
C3_Undone == Len(stack) = 2 /\ index = 0 /\ ~redoDisabled

\* C3 as stated: every call of undo() and of redo() leaves the stack as it was and
\* changes the cursor by exactly one.
C3_CursorAlwaysMoves ==
  LET u == HistoryUndo(Doc, zoom)
      r == HistoryRedo(Doc, zoom)
  IN /\ u.stack = stack /\ Abs(u.index - index) = 1
     /\ r.stack = stack /\ Abs(r.index - index) = 1

\* C6: when the action at the cursor is the create of a node of any kind, undo()
\* followed by redo() leaves a node with the original id and kind in the document,
\* with the geometry of the action's after snapshot.
C6_RedoRestoresCreated ==
  (AtRest /\ index >= 0 /\ stack[index + 1].type = "create") =>
     LET r == HistoryRedo(HistoryUndo(Doc, zoom), zoom)
         after == stack[index + 1].after
     IN \A i \in 1..Len(after) :
          LET h == NodeById(r.world, r.elems, after[i].id)
          IN h # NoElem /\ r.elems[h] = after[i]

---------------------------------------------------------------------------
(* Properties of the gestures *)

\* The gesture modes a state is in.
Modes(d) ==
  {m \in {"Panning", "BoxSelecting", "DraggingNodes", "ResizingNode"} :
     \/ m = "Panning" /\ d.isPanning
     \/ m = "BoxSelecting" /\ d.isBoxSelecting
     \/ m = "DraggingNodes" /\ d.isDraggingNode
     \/ m = "ResizingNode" /\ d.isResizingNode}

\* The last entry of a history stack.
Last(s) == s[Len(s)]

\* C5: at zoom 1, with the text node created at (100,100) held by a pointer that
\* went down at (100,100) and is now at (120,120), a drag by (+20,+20), the
\* pointer-up gives a history of length 2 whose move action has before (100,100)
\* and after (120,120).
C5_DragRecordsMove ==
  (/\ isDraggingNode /\ Len(stack) = 1 /\ index = 0
   /\ pointerAction.pointerStart = <<100, 100>>
   /\ pointerAction.updateScheduled
   /\ pointerAction.lastPointerX = 120 /\ pointerAction.lastPointerY = 120
   /\ stack[1].type = "create"
   /\ stack[1].after[1].left = Px(100) /\ stack[1].after[1].top = Px(100)) =>
     LET r == onPointerUp(Doc)
         move == Last(r.stack)
     IN /\ Len(r.stack) = 2 /\ r.index = 1
        /\ move.type = "move"
        /\ Len(move.before) = 1 /\ Len(move.after) = 1
        /\ move.before[1].left = Px(100) /\ move.before[1].top = Px(100)
        /\ move.after[1].left = Px(120) /\ move.after[1].top = Px(120)

\* C8: at most one of the flags isPanning, isBoxSelecting, isDraggingNode and
\* isResizingNode is true, in every reachable state.
C8_ModesExclusive == Cardinality(Modes(Doc)) <= 1

\* The mode the priority order gives a pointer-down at p: a resize handle, then a
\* node body, then the select tool or the move tool with Shift, then panning.
ModeByPriority(d, p, shiftKey, part) ==
  IF NodeAt(d, p) # NoElem /\ part = "resizer" THEN "ResizingNode"
  ELSE IF NodeAt(d, p) # NoElem THEN "DraggingNodes"
  ELSE IF d.activeTool = "select" \/ (d.activeTool = "move" /\ shiftKey) THEN "BoxSelecting"
  ELSE "Panning"

\* C9: from Idle, a primary-button pointer-down on the canvas, on the header of a
\* node or on its resize handle enters exactly the mode the priority order gives.
C9_DispatchPriority ==
  ~InGesture =>
     \A p \in Points, shiftKey \in BOOLEAN, part \in {"header", "resizer"} :
        (NodeAt(Doc, p) = NoElem => part = "header") =>
           Modes(onPointerDown(Doc, p, shiftKey, part)) = {ModeByPriority(Doc, p, shiftKey, part)}

\* The nodes a gesture that has just started affects.
Affected(d) == IF d.isResizingNode THEN <<d.resizedNode>> ELSE d.selectedNodes

\* C10: for a gesture on a node, from the pointer-down through any one move and
\* frame to the pointer-up, the pointer-up pushes exactly one action, a resize
\* for a resize handle and a move for the header, whose before is the geometry of
\* the affected nodes at the pointer-down and whose after is their geometry at
\* the pointer-up.
C10_GestureRecordsGeometry ==
  ~InGesture =>
     \A p \in Points, part \in {"header", "resizer"} :
        NodeAt(Doc, p) # NoElem =>
           LET down == onPointerDown(Doc, p, FALSE, part)
               ends == {down} \cup {updatePositions(onPointerMove(down, q)) : q \in Points}
           IN \A end \in ends :
                LET r == onPointerUp(end)
                    a == Last(r.stack)
                IN /\ r.stack = Append(SubSeq(stack, 1, index + 1), a)
                   /\ a.type = IF part = "resizer" THEN "resize" ELSE "move"
                   /\ a.before = captureNodeState(elems, Affected(down))
                   /\ a.after = captureNodeState(end.elems, Affected(down))

---------------------------------------------------------------------------
(* Properties of the guard and of the raster editor's history *)

\* C4: in every state in which no undo() or redo() call is executing the guard
\* is false, so that a push issued then is recorded.
C4_GuardReleasedOnReturn ==
  /\ ~isApplyingHistory
  /\ \A a \in SampleActions : HistoryAdd(Doc, a).stack # stack

\* The editors whose node is in the document and that show an image.
ShownEditors ==
  {id \in DOMAIN editor2dInstances :
     NodeById(world, elems, id) # NoElem /\ editor2dInstances[id].bgImage # NoImage}

\* A text stamp at p: pointer-down and pointer-up with the text tool.
TextStamp(d, id, p) == onEditorPointerUp(onEditorPointerDown(d, id, p), id)

\* A freehand stroke from p to q: pointer-down, one pointer-move and pointer-up
\* with the pen tool.
Stroke(d, id, p, q) ==
  onEditorPointerUp(onEditorPointerMove(onEditorPointerDown(d, id, p), id, q, FALSE), id)

\* A crop commit: the confirm button and the load of the cropped image.
CropCommit(d, id) == CompleteLoads(endCrop(d, id, TRUE))

\* undo() and the completion of the image load it starts.
Undone(d) == CompleteLoads(HistoryUndo(d, d.zoom))

\* C7: for a text stamp, a freehand stroke and a crop commit that push an
\* editor:modify action, undo() and the load it starts leave the editor's
\* background image, bitmap, image position and image scale as they were
\* immediately before the action; for the crop commit, the background image and
\* the (position, scale) pair.
C7_UndoRestoresEditor ==
  Settled =>
     \A id \in ShownEditors :
        /\ activeTool = "text" =>
             \A p \in Points :
                LET done == TextStamp(Doc, id, p)
                IN done.index = index + 1 =>
                     EditorContent(Undone(done))[id] = EditorContent(Doc)[id]
        /\ activeTool = "pen" =>
             \A p \in Points, q \in Points :
                LET done == Stroke(Doc, id, p, q)
                IN done.index = index + 1 =>
                     EditorContent(Undone(done))[id] = EditorContent(Doc)[id]
        /\ (activeTool = "crop" /\ editor2dInstances[id].isCroppingActive) =>
             LET done == CropCommit(Doc, id)
                 back == Undone(done).eds[id]
             IN done.index = index + 1 =>
                  /\ back.bgImage = editor2dInstances[id].bgImage
                  /\ back.bgImagePos = editor2dInstances[id].bgImagePos
                  /\ back.bgImageScale = editor2dInstances[id].bgImageScale

---------------------------------------------------------------------------
(* Properties of the pointer-up, of the selection and of the no-op calls *)

\* C12: after a pointer-up, whatever the state before it, isPanning,
\* isBoxSelecting, isDraggingNode and isResizingNode are all false and
\* resizedNode is null.
C12_PointerUpEndsGesture ==
  LET r == onPointerUp(Doc)
  IN Modes(r) = {} /\ r.resizedNode = NoElem

\* A pointer-up has just ended a resize, a drag and a pan.
C12_AfterPointerUp ==
  /\ ~InGesture /\ resizedNode = NoElem
  /\ Len(stack) = 2 /\ stack[1].type = "create" /\ stack[2].type = "resize"
  /\ panX # 0

\* C13: in every reachable state the selection is a subset of the nodes of the
\* document; after undo() of the create of a selected node, that node is not in
\* the selection.
C13_SelectionInRegistry == Range(selectedNodes) \subseteq Range(world)

\* C18: undo() with the cursor below 0 and redo() with the cursor at the tail are
\* no-ops: the stack, the cursor, the registry, the editor states and the guard,
\* and the rest of the state, are as before the call.
C18_NothingToReplay ==
  /\ index < 0 => HistoryUndo(Doc, zoom) = Doc
  /\ index >= Len(stack) - 1 => HistoryRedo(Doc, zoom) = Doc

\* Both actions of the history of an image-editor node have been undone: undo()
\* has nothing left to replay.
C18_AllUndone ==
  /\ AtRest /\ Len(stack) = 2 /\ index = -1
  /\ undoDisabled /\ ~redoDisabled
  /\ DOMAIN editor2dInstances # {}

\* The undo button is enabled exactly when the cursor is at 0 or above, and the
\* redo button exactly when the cursor is before the tail.
ButtonsInSync(d) ==
  /\ ~d.undoDisabled <=> d.index >= 0
  /\ ~d.redoDisabled <=> d.index < Len(d.stack) - 1

\* C19: after every push, undo() and redo() that changes the history, the undo
\* button is enabled iff cursor >= 0 and the redo button iff cursor < length - 1;
\* so the buttons are in this state whenever the history is not empty.
C19_ButtonsFollowCursor ==
  /\ \A r \in {HistoryAdd(Doc, a) : a \in SampleActions}
               \cup {HistoryUndo(Doc, zoom), HistoryRedo(Doc, zoom)} :
        (r.stack # stack \/ r.index # index) => ButtonsInSync(r)
  /\ stack # <<>> => ButtonsInSync(Doc)

\* One of two actions has been undone: both buttons are enabled.
C19_BothEnabled ==
  /\ Len(stack) = 2 /\ index = 0 /\ ~undoDisabled /\ ~redoDisabled

\* C15: a pointer-down on the header of a node n, from Idle: with the modifier
\* held the selection is the old one with the membership of n toggled; without
\* it the selection is {n} when n was not selected and is unchanged when it was.
C15_PointerDownSelects ==
  ~InGesture =>
     \A p \in Points, shiftKey \in BOOLEAN :
        LET n == NodeAt(Doc, p)
            old == Range(selectedNodes)
            new == Range(onPointerDown(Doc, p, shiftKey, "header").selectedNodes)
        IN n # NoElem =>
             new = IF shiftKey THEN (IF n \in old THEN old \ {n} ELSE old \cup {n})
                   ELSE IF n \notin old THEN {n}
                   ELSE old

---------------------------------------------------------------------------
(* Properties of the freehand stroke *)

\* The pixels of an editor's canvas: its size and what is painted on it.
Pixels(ed) == <<ed.canvasW, ed.canvasH, ed.bitmap>>

\* The editors whose node is in the document.
LiveEditors == {id \in DOMAIN editor2dInstances : NodeById(world, elems, id) # NoElem}

\* C20: the pointer-up that ends a freehand stroke (pen or eraser) pushes exactly
\* one editor:modify action, from the snapshot taken at the pointer-down to the
\* canvas at the pointer-up, when the canvas differs from that snapshot, and
\* pushes nothing when it does not; a pointer-down followed at once by the
\* pointer-up pushes nothing.
C20_StrokePushesIfChanged ==
  Settled =>
     \A id \in LiveEditors, tool \in {"pen", "eraser"}, p \in Points :
        LET down == onEditorPointerDown(selectTool(Doc, tool), id, p)
            ends == {down} \cup {onEditorPointerMove(down, id, q, FALSE) : q \in Points}
        IN /\ onEditorPointerUp(down, id).stack = stack
           /\ onEditorPointerUp(down, id).index = index
           /\ \A end \in ends :
                LET r == onEditorPointerUp(end, id)
                IN IF Pixels(end.eds[id]) # Pixels(down.eds[id])
                   THEN /\ r.index = index + 1
                        /\ r.stack = Append(SubSeq(stack, 1, index + 1), Last(r.stack))
                        /\ Last(r.stack).type = "editor:modify"
                        /\ Last(r.stack).nodeId = id
                        /\ Last(r.stack).before = toDataURL(down.eds[id])
                        /\ Last(r.stack).after = toDataURL(end.eds[id])
                   ELSE r.stack = stack /\ r.index = index

\* A pen stroke has been drawn and its pointer-up has pushed an action.
C20_StrokePushed ==
  /\ Settled /\ activeTool = "pen" /\ index >= 0
  /\ stack[index + 1].type = "editor:modify"
  /\ stack[index + 1].beforeMetadata.has
  /\ \E i \in 1..Len(stack[index + 1].after.layers) :
        stack[index + 1].after.layers[i].op = "stroke"

---------------------------------------------------------------------------
(* Properties of the box selection *)

\* The box whose corners are the world points under the screen points p and q.
SelectionBox(d, p, q) ==
  LET a == screenToWorld(d, p)
      b == screenToWorld(d, q)
  IN [left |-> Min(a[1], b[1]), top |-> Min(a[2], b[2]),
      right |-> Min(a[1], b[1]) + Abs(a[1] - b[1]),
      bottom |-> Min(a[2], b[2]) + Abs(a[2] - b[2])]

\* The rectangle node n covers in the world: its style position and its size.
NodeRect(d, n) ==
  [left |-> d.elems[n].left, top |-> d.elems[n].top,
   right |-> d.elems[n].left + Px(offsetWidth(d.world, d.elems, n)),
   bottom |-> d.elems[n].top + Px(offsetHeight(d.world, d.elems, n))]

FullyInside(r, box) ==
  /\ box.left <= r.left /\ r.right <= box.right
  /\ box.top <= r.top /\ r.bottom <= box.bottom

FullyOutside(r, box) ==
  \/ r.right < box.left \/ box.right < r.left
  \/ r.bottom < box.top \/ box.bottom < r.top

\* The selection a box-select gesture from p to q has to give.
BoxSelected(d, before, sel, p, q) ==
  \A n \in Range(d.world) :
     /\ FullyInside(NodeRect(d, n), SelectionBox(d, p, q)) => n \in sel
     /\ (FullyOutside(NodeRect(d, n), SelectionBox(d, p, q)) /\ n \notin before)
          => n \notin sel

\* C14: a box-select gesture from p whose last pointer position is q ends with
\* every node fully inside the box of p and q selected and every node fully
\* outside it that was not selected before the gesture not selected, whether or
\* not a frame came between the last move and the pointer-up.
C14_BoxSelectsInside ==
  (~InGesture /\ activeTool = "select") =>
     \A p \in BoxPoints, q \in BoxPoints, shiftKey \in BOOLEAN :
        NodeAt(Doc, p) = NoElem =>
           LET moved == onPointerMove(onPointerDown(Doc, p, shiftKey, "header"), q)
           IN /\ BoxSelected(Doc, Range(selectedNodes),
                             Range(onPointerUp(updatePositions(moved)).selectedNodes), p, q)
              /\ BoxSelected(Doc, Range(selectedNodes),
                             Range(onPointerUp(moved).selectedNodes), p, q)

\* The same with a frame between the last move and the pointer-up.
BoxSelectsInsideAfterFrame ==
  (~InGesture /\ activeTool = "select") =>
     \A p \in BoxPoints, q \in BoxPoints, shiftKey \in BOOLEAN :
        NodeAt(Doc, p) = NoElem =>
           LET moved == onPointerMove(onPointerDown(Doc, p, shiftKey, "header"), q)
           IN BoxSelected(Doc, Range(selectedNodes),
                          Range(onPointerUp(updatePositions(moved)).selectedNodes), p, q)

---------------------------------------------------------------------------
(* Properties of the view *)

\* The zooms zoomTo is asked for, from below the minimum to above the maximum.
ZoomTargets == (ZoomMinTenths - 2)..(ZoomMaxTenths + 2)

\* The pivots zoomTo is given: none (the centre of the canvas) or a point.
Centers == {<<>>} \cup WheelPoints \cup Points

SameHistory(r) == r.stack = stack /\ r.index = index

SameView(r) == r.panX = panX /\ r.panY = panY /\ r.zoom = zoom

\* C11: a pan or box-select gesture, from its pointer-down through a move, with
\* or without a frame, to its pointer-up, and every zoomTo call and wheel event,
\* leave the history stack and the cursor as they were; undo() and redo() leave
\* panX, panY and zoom as they were.
C11_ViewNotUndoable ==
  /\ ~InGesture =>
       \A tool \in CanvasTools, p \in Points, q \in Points, shiftKey \in BOOLEAN :
          NodeAt(Doc, p) = NoElem =>
             LET down == onPointerDown(selectTool(Doc, tool), p, shiftKey, "header")
                 moved == onPointerMove(down, q)
                 frame == updatePositions(moved)
             IN /\ Modes(down) = {IF tool = "select" THEN "BoxSelecting" ELSE "Panning"}
                /\ \A r \in {down, moved, frame, onPointerUp(down), onPointerUp(moved),
                              onPointerUp(frame)} : SameHistory(r)
  /\ \A nextZoom \in ZoomTargets, center \in Centers :
        SameHistory(zoomTo(Doc, nextZoom, center))
  /\ \A p \in WheelPoints, deltaY \in WheelDeltas : SameHistory(onWheel(Doc, p, deltaY))
  /\ SameView(HistoryUndo(Doc, zoom))
  /\ SameView(HistoryRedo(Doc, zoom))

\* The view has been zoomed and panned, with a create in the history that has
\* been undone.
C11_ZoomedPannedUndone ==
  /\ ~InGesture /\ zoom # InitialZoomTenths /\ panX \notin {0, CentredPan(zoom)[1]}
  /\ Len(stack) = 1 /\ index = -1

\* The zoom a request for nextZoom has to give.
ZoomInRange(nextZoom) ==
  IF nextZoom < ZoomMinTenths THEN ZoomMinTenths
  ELSE IF nextZoom > ZoomMaxTenths THEN ZoomMaxTenths
  ELSE nextZoom

\* C16: in every state reached by wheel events, zoom button clicks, pans, minimap
\* clicks, undo and redo, the zoom lies between 0.3 and 2.0, and so does the zoom
\* after any zoomTo call; a zoomTo call whose clamped target is the current zoom
\* changes neither the pan, the zoom nor the history, nor anything else.
C16_ZoomInRange ==
  /\ zoom \in ZoomMinTenths..ZoomMaxTenths
  /\ \A nextZoom \in ZoomTargets, center \in Centers :
        LET r == zoomTo(Doc, nextZoom, center)
        IN /\ r.zoom = ZoomInRange(nextZoom)
           /\ ZoomInRange(nextZoom) = zoom => r = Doc

\* The zoom is at its maximum, after a create was undone and the view panned:
\* a zoom-in click now asks for a zoom above the maximum.
C16_AtMaximum ==
  /\ ~InGesture /\ zoom = ZoomMaxTenths /\ panX \notin {0, CentredPan(zoom)[1]}
  /\ Len(stack) = 1 /\ index = -1

\* C17: for every zoomTo call that changes the zoom, the world point under the
\* pivot (the given point, or the centre of the canvas) is the same with the new
\* pan and zoom as with the old: (pivot - panX') / zoom' = (pivot - panX) / zoom,
\* and likewise for panY; the fractions are compared by cross-multiplication.
C17_ZoomAnchoredAtPivot ==
  \A nextZoom \in ZoomTargets, center \in Centers :
     ZoomInRange(nextZoom) # zoom =>
        LET z == ZoomInRange(nextZoom)
            m == ZoomPivot(center)
            x == zoomPan(panX, m[1], zoom, z)
            y == zoomPan(panY, m[2], zoom, z)
            r == zoomTo(Doc, nextZoom, center)
        IN /\ (m[1] * x.den - x.num) * zoom = (m[1] - panX) * z * x.den
           /\ (m[2] * y.den - y.num) * zoom = (m[2] - panY) * z * y.den
           /\ WholePixels(Doc, nextZoom, center) =>
                /\ r.zoom = z
                /\ r.panX * x.den = x.num /\ (m[1] - r.panX) * zoom = (m[1] - panX) * z
                /\ r.panY * y.den = y.num /\ (m[2] - r.panY) * zoom = (m[2] - panY) * z

\* The wheel has turned once over (120,120) in the initial view: the world
\* point under it, (200,200), is still under it at zoom 0.7.
C17_ZoomedAtPointer ==
  /\ ~InGesture /\ zoom = InitialZoomTenths + ZoomStepTenths
  /\ panX = -20 /\ panY = -20

---------------------------------------------------------------------------
(* Properties of the crop *)

\* The crop sub-state of an editor.
CropState(ed) ==
  IF ed.isCroppingActive THEN "Active"
  ELSE IF ed.isDefiningCropArea THEN "Defining" ELSE "None"

\* The editors with an open crop box.
OpenCrops(d) == {id \in DOMAIN d.eds : CropState(d.eds[id]) # "None"}

\* The commits of the crop of editor id: the confirm button, and the Enter key
\* when the editor is the active one.
Commits(d, id) ==
  {endCrop(d, id, TRUE)}
    \cup (IF d.activeEditorNode = <<id>>
          THEN {handleKeyboard(d, "Enter", FALSE, FALSE)} ELSE {})

CropKept(d, r) ==
  /\ r.stack = d.stack /\ r.index = d.index /\ r.loads = d.loads
  /\ \A id \in DOMAIN d.eds :
        /\ r.eds[id].bgImage = d.eds[id].bgImage
        /\ r.eds[id].bgImagePos = d.eds[id].bgImagePos
        /\ r.eds[id].bgImageScale = d.eds[id].bgImageScale

\* The cancel triggers in state d: the Escape key, a switch of the tool away
\* from crop, and a pointer-down on an editor outside its Active crop box.
Cancels(d) ==
  {handleKeyboard(d, "Escape", FALSE, FALSE)}
    \cup {selectTool(d, tool) : tool \in EditorTools \ {"crop"}}
    \cup UNION {{onEditorPointerDown(d, id, p) :
                   p \in {q \in Points \cup {<<300, 100>>} :
                            /\ FindHandle(d.eds[id], getRelativePointerPos(d, id, q)) = ""
                            /\ ~InsideCropBox(d.eds[id], getRelativePointerPos(d, id, q))}} :
                id \in {i \in DOMAIN d.eds :
                          /\ NodeById(d.world, d.elems, i) # NoElem
                          /\ d.eds[i].isCroppingActive}}

\* With the crop tool, the user adds a second image-editor node at (300,100),
\* gives it an image and drags a crop box on it from (300,100) to (320,120).
CropOnSecondEditor(d) ==
  LET t == d.now + 1
      id == MakeNodeId("image-editor", t)
      wp == screenToWorld(d, <<300, 100>>)
      added == createNode([d EXCEPT !.now = t], "image-editor", wp[1], wp[2],
                          FALSE, NoNodeState, t)
      shown == CompleteLoads(loadAndDisplayImage(ResizeObserved(added, id), id,
                                                 FileImage("a", 100, 100)))
      down == onEditorPointerDown(shown, id, <<300, 100>>)
  IN onEditorPointerUp(onEditorPointerMove(down, id, <<320, 120>>, FALSE), id)

\* The states the cancel triggers are tried in: the state itself and, when a
\* crop box is Active in it, the state with a second box open on another editor.
CropStates ==
  {Doc} \cup (IF /\ Settled /\ activeTool = "crop" /\ NodeAt(Doc, <<300, 100>>) = NoElem
                 /\ \E id \in LiveEditors : editor2dInstances[id].isCroppingActive
              THEN {CropOnSecondEditor(Doc)} ELSE {})

\* C22: each cancel trigger leaves every editor that had an open crop box in
\* crop sub-state None, and changes neither the history, the background image
\* nor its placement; whenever the active tool is not crop, no editor has an
\* open crop box.
C22_CancelClosesCrops ==
  /\ activeTool # "crop" => OpenCrops(Doc) = {}
  /\ \A d \in CropStates :
        imageLoads = <<>> =>
           \A r \in Cancels(d) :
              /\ CropKept(d, r)
              /\ r.activeTool # "crop" => OpenCrops(r) = {}
              /\ (r.activeTool = d.activeTool /\ r # d) => OpenCrops(r) = {}

\* The same in the reachable states alone, where one editor has a crop box.
CancelClosesCropOfOneEditor ==
  /\ activeTool # "crop" => OpenCrops(Doc) = {}
  /\ imageLoads = <<>> =>
        \A r \in Cancels(Doc) :
           /\ CropKept(Doc, r)
           /\ r.activeTool # "crop" => OpenCrops(r) = {}
           /\ (r.activeTool = activeTool /\ r # Doc) => OpenCrops(r) = {}

\* An image file whose intrinsic width is 0 (an SVG without dimensions): its
\* drawn rectangle has width 0 on every surface.
ZeroWidthFile == FileImage("z", 0, 100)

\* The editor id, with an Active crop box, is given the file of width 0 and the
\* load completes: the box stays open over the new image.
UploadedUnderCrop(d, id) == CompleteLoads(loadAndDisplayImage(d, id, ZeroWidthFile))

\* The commits of a crop whose mapped rectangle is degenerate, with the state
\* they start from.
DegenerateCommits ==
  UNION {{<<UploadedUnderCrop(Doc, id), id, r>> : r \in Commits(UploadedUnderCrop(Doc, id), id)} :
           id \in {i \in LiveEditors :
                     /\ imageLoads = <<>>
                     /\ editor2dInstances[i].isCroppingActive
                     /\ editor2dInstances[i].cropBox.w > 1
                     /\ editor2dInstances[i].cropBox.h > 1
                     /\ getDrawnImageRect(UploadedUnderCrop(Doc, i).eds[i]).w <= 0}}

\* A commit with a degenerate rectangle starts no load and changes neither the
\* history, the background image, its placement nor the crop box.
DegenerateCommitKeepsImage ==
  \A c \in DegenerateCommits :
     LET d == c[1]
         id == c[2]
         r == c[3]
     IN /\ r.stack = d.stack /\ r.index = d.index /\ r.loads = d.loads
        /\ r.eds[id].bgImage = d.eds[id].bgImage
        /\ r.eds[id].bgImagePos = d.eds[id].bgImagePos
        /\ r.eds[id].bgImageScale = d.eds[id].bgImageScale
        /\ r.eds[id].cropBox = d.eds[id].cropBox

\* C23: a crop commit whose mapped rectangle is degenerate is aborted: the
\* background image, its position and scale and the history are unchanged, and
\* the crop sub-state remains Active with the same crop box.
C23_DegenerateCropStaysActive ==
  /\ DegenerateCommitKeepsImage
  /\ \A c \in DegenerateCommits : CropState(c[3].eds[c[2]]) = "Active"

---------------------------------------------------------------------------
(* Properties of the resize of the raster surface *)

\* The surface shows something a stroke or a text stamp painted, as it was
\* painted or inside a picture drawn on the surface later.
RECURSIVE HasDrawing(_)
HasDrawing(layers) ==
  \E i \in 1..Len(layers) :
     \/ layers[i].op \in {"stroke", "text"}
     \/ layers[i].op = "image" /\ HasDrawing(layers[i].img.layers)

\* The editor id after a text stamp at p, and after a pen stroke from p.
Drawings(d, id, p) ==
  {TextStamp(selectTool(d, "text"), id, p),
   Stroke(selectTool(d, "pen"), id, p, <<p[1] + 20, p[2] + 20>>)}

\* A resize gesture on the node of editor id, the pointer moved by (30,30), up
\* to the frame that applies it.
ResizedByGesture(d, id) ==
  updatePositions(onPointerMove(
    handleNodeResizeStart(d, <<0, 0>>, NodeById(d.world, d.elems, id)), <<30, 30>>))

\* A drag of the node of editor id by (30,30), applied, ended and undone: the
\* undo of the move action.
MovedAndUndone(d, id) ==
  LET h == NodeById(d.world, d.elems, id)
      moved == onPointerUp(updatePositions(onPointerMove(
                 handleNodeDragStart(d, <<0, 0>>, FALSE, h, FALSE), <<30, 30>>)))
  IN HistoryUndo(moved, moved.zoom)

\* resizeEditorCanvas itself copies what the surface shows to the new size.
ResizeCopiesDrawing ==
  Settled =>
     \A id \in LiveEditors, p \in Points : \A d \in Drawings(Doc, id, p) :
        HasDrawing(d.eds[id].bitmap) =>
           HasDrawing(resizeEditorCanvas(d.eds[id], 200, 100).bitmap)

\* C24: whenever the raster surface of an image-editor node is resized (by a node
\* resize gesture, by the undo of a move or resize, or by a resize of its
\* container), what strokes and text stamps drew on it is still on it.
C24_ResizeKeepsDrawing ==
  Settled =>
     \A id \in LiveEditors, p \in Points : \A d \in Drawings(Doc, id, p) :
        HasDrawing(d.eds[id].bitmap) =>
           /\ HasDrawing(ResizedByGesture(d, id).eds[id].bitmap)
           /\ HasDrawing(MovedAndUndone(d, id).eds[id].bitmap)
           /\ HasDrawing(ResizeObserved(d, id).eds[id].bitmap)

---------------------------------------------------------------------------
(* Properties of createNode *)

\* Names that are no node kind: the first token of the id of an image node,
\* which redo() passes to createNode, and a name no menu entry has.
UnknownKinds == {"image", "note"}

\* The node states recorded in the create actions of the history.
CreatedStates ==
  UNION {Range(stack[i].after) : i \in {j \in 1..Len(stack) : stack[j].type = "create"}}

\* C25: createNode called with an unknown node kind, with or without a
\* restoration state, changes nothing: the node registry, the history stack and
\* cursor, the selection and the editor map are as they were.
C25_UnknownKindAborts ==
  /\ \A type \in UnknownKinds, p \in Points, t \in 0..MaxTime :
        createNode(Doc, type, Px(p[1]), Px(p[2]), FALSE, NoNodeState, t) = Doc
  /\ \A rs \in CreatedStates :
        ~HasTemplate(IdFirstToken(rs.id)) =>
           createNode(Doc, IdFirstToken(rs.id), 0, 0, TRUE, rs, 0) = Doc

\* redo() of the creation of an image node has called createNode with the kind
\* "image": the cursor is on the create action and its node is not in the
\* document.
C25_RedoCalledUnknownKind ==
  /\ index >= 0
  /\ stack[index + 1].type = "create"
  /\ \E rs \in Range(stack[index + 1].after) :
        /\ ~HasTemplate(IdFirstToken(rs.id))
        /\ NodeById(world, elems, rs.id) = NoElem

---------------------------------------------------------------------------
(* Properties of the drag of nodes *)

\* The pointer positions of the moves of a drag.
DragPoints == {<<110, 130>>, <<131, 95>>}

\* A second text node, added at screen point (300,100).
SecondNode(d) ==
  LET t == d.now + 1
      wp == screenToWorld(d, <<300, 100>>)
  IN createNode([d EXCEPT !.now = t], "text", wp[1], wp[2], FALSE, NoNodeState, t)

\* With two nodes in the document: a click on the header of the second node
\* selects it alone; then the pointer goes down at p on the header of the first
\* node, with Shift (both nodes are selected and dragged) or without (the first
\* node alone is), and moves to q, a frame runs, moves to q2, a frame runs.
\* The states at the pointer-down and after each frame.
DragOfTwo(d, p, shiftKey, q, q2) ==
  LET two == SecondNode(d)
      clicked == onPointerUp(handleNodeDragStart(two, <<300, 100>>, FALSE,
                                                 NodeAt(two, <<300, 100>>), FALSE))
      start == handleNodeDragStart(clicked, p, shiftKey, NodeAt(two, p), FALSE)
      first == updatePositions(onPointerMove(start, q))
  IN <<start, first, updatePositions(onPointerMove(first, q2))>>

\* The states from which DragOfTwo is taken: one node in the document, under one
\* of the points, and nothing under (300,100).
OneNodeAtRest ==
  /\ ~InGesture /\ Len(world) = 1
  /\ NodeAt(Doc, <<300, 100>>) = NoElem

\* After the update for the pointer at q, every node selected at the start g of
\* the gesture is at its recorded start position plus (q - p) / zoom, and every
\* other node is where it was.
FollowsPointer(g, a, p, q) ==
  LET starts == g.pointerAction.nodeDragStartPositions
  IN /\ {starts[i].node : i \in 1..Len(starts)} = Range(g.selectedNodes)
     /\ \A i \in 1..Len(starts) :
           /\ a.elems[starts[i].node].left = Px(starts[i].x) + DivZoom(q[1] - p[1], g.zoom)
           /\ a.elems[starts[i].node].top = Px(starts[i].y) + DivZoom(q[2] - p[2], g.zoom)
     /\ \A n \in DOMAIN g.elems \ Range(g.selectedNodes) : a.elems[n] = g.elems[n]

\* After the update, the offsets between the dragged nodes are those at the
\* start g of the gesture.
KeepsOffsets(g, a) ==
  \A n \in Range(g.selectedNodes), m \in Range(g.selectedNodes) :
     /\ a.elems[n].left - a.elems[m].left = g.elems[n].left - g.elems[m].left
     /\ a.elems[n].top - a.elems[m].top = g.elems[n].top - g.elems[m].top

\* Every applied update of a drag puts the dragged nodes at their recorded start
\* plus the pointer's displacement over the zoom and moves no other node.
DragFollowsPointer ==
  OneNodeAtRest =>
     \A p \in {r \in Points : NodeAt(Doc, r) # NoElem}, shiftKey \in BOOLEAN :
        \A q \in DragPoints, q2 \in DragPoints :
           LET g == DragOfTwo(Doc, p, shiftKey, q, q2)
           IN FollowsPointer(g[1], g[2], p, q) /\ FollowsPointer(g[1], g[3], p, q2)

\* C26: during a drag, after each applied update every node selected at the
\* start of the gesture is at its recorded start position plus (latest pointer
\* position - pointer-down position) / zoom on both axes, the offsets between
\* the dragged nodes are those at the start of the gesture, and no other node
\* has moved.
C26_DragKeepsOffsets ==
  OneNodeAtRest =>
     \A p \in {r \in Points : NodeAt(Doc, r) # NoElem}, shiftKey \in BOOLEAN :
        \A q \in DragPoints, q2 \in DragPoints :
           LET g == DragOfTwo(Doc, p, shiftKey, q, q2)
           IN /\ FollowsPointer(g[1], g[2], p, q) /\ FollowsPointer(g[1], g[3], p, q2)
              /\ KeepsOffsets(g[1], g[2]) /\ KeepsOffsets(g[1], g[3])

\* When the dragged nodes are in the document at a whole number of pixels at the
\* start of the gesture, every applied update keeps the offsets between them.
DragKeepsOffsetsOfWholePixels ==
  OneNodeAtRest =>
     \A p \in {r \in Points : NodeAt(Doc, r) # NoElem}, shiftKey \in BOOLEAN :
        \A q \in DragPoints, q2 \in DragPoints :
           LET g == DragOfTwo(Doc, p, shiftKey, q, q2)
           IN (\A n \in Range(g[1].selectedNodes) :
                  /\ n \in Range(g[1].world)
                  /\ g[1].elems[n].left % Sub = 0 /\ g[1].elems[n].top % Sub = 0)
              => KeepsOffsets(g[1], g[2]) /\ KeepsOffsets(g[1], g[3])

---------------------------------------------------------------------------
(* Properties of the frame callback *)

\* What an update of a gesture changes: the geometry of the nodes and of the
\* editors' surfaces, the pan and the selection.
Geometry(d) ==
  <<d.elems, d.panX, d.panY, d.selectedNodes,
    [id \in DOMAIN d.eds |-> <<d.eds[id].canvasW, d.eds[id].canvasH, d.eds[id].bitmap>>]>>

\* The pointer positions of the moves between two frames.
MovePoints == Points \cup DragPoints

\* C27: pointer-move handling is frame-coalesced.  A pointer-move applies
\* nothing; a scheduled update has a frame callback queued; for any moves
\* between two frames, the callback applies what it would apply after the last
\* move alone, and a second run of the callback applies nothing more.
C27_MovesCoalesced ==
  /\ pointerAction.updateScheduled => rafPending
  /\ \A q1 \in MovePoints, q2 \in MovePoints, q3 \in MovePoints :
        LET m1 == onPointerMove(Doc, q1)
            m2 == onPointerMove(m1, q2)
            m3 == onPointerMove(m2, q3)
        IN /\ Geometry(m1) = Geometry(Doc) /\ Geometry(m3) = Geometry(Doc)
           /\ m3.rafPending /\ m3.pointerAction.updateScheduled
           /\ updatePositions(m3) = updatePositions(onPointerMove(Doc, q3))
           /\ updatePositions(m2) = updatePositions(onPointerMove(Doc, q2))
           /\ updatePositions(updatePositions(m3)) = updatePositions(m3)
           /\ ~updatePositions(m3).pointerAction.updateScheduled

\* A frame has applied the moves of a drag: no update is scheduled, no callback
\* is queued, and the dragged node is at its recorded start plus the
\* displacement over the zoom of a pointer away from where it went down.
C27_FrameAppliedLastMove ==
  /\ isDraggingNode /\ ~pointerAction.updateScheduled /\ ~rafPending
  /\ pointerAction.nodeDragStartPositions # <<>>
  /\ \E q \in Points :
        /\ q[1] # pointerAction.pointerStart[1]
        /\ \A i \in 1..Len(pointerAction.nodeDragStartPositions) :
              LET st == pointerAction.nodeDragStartPositions[i]
              IN elems[st.node].left =
                   Px(st.x) + DivZoom(q[1] - pointerAction.pointerStart[1], zoom)

\* The frames that may follow a pointer-up: the callback queued during the
\* gesture, and the callback a later pointer-move without a button queues.
FramesAfter(up) ==
  {updatePositions([up EXCEPT !.rafPending = FALSE])}
    \cup {updatePositions(onPointerMove(up, q)) : q \in MovePoints}

\* C28: the pointer-up of a drag or resize pushes its action after the last
\* update of the geometry: no frame callback that runs after the pointer-up
\* changes the geometry, and the after snapshot of the pushed action is the
\* geometry of the gesture's nodes after those callbacks.
C28_RecordedAfterLastUpdate ==
  (isDraggingNode \/ isResizingNode) =>
     LET up == onPointerUp(Doc)
         nodes == IF isResizingNode THEN <<resizedNode>> ELSE selectedNodes
         a == Last(up.stack)
     IN /\ up.index = index + 1 /\ up.index = Len(up.stack) - 1
        /\ a.type = (IF isResizingNode THEN "resize" ELSE "move")
        /\ ~up.pointerAction.updateScheduled
        /\ \A f \in FramesAfter(up) :
              /\ Geometry(f) = Geometry(up)
              /\ f.stack = up.stack /\ f.index = up.index
              /\ a.after = captureNodeState(f.elems, nodes)

\* The pointer-up of a drag has pushed its move while the frame callback of the
\* gesture's last move is still queued.
C28_UpBeforeQueuedFrame ==
  /\ ~InGesture /\ rafPending /\ index >= 0 /\ index = Len(stack) - 1
  /\ stack[index + 1].type = "move"
  /\ stack[index + 1].after = captureNodeState(elems, selectedNodes)
  /\ stack[index + 1].after # stack[index + 1].before

\* The ids of the nodes in the document.
RegistryIds(d) == {d.elems[d.world[i]].id : i \in 1..Len(d.world)}

\* The call that gave r from d added exactly one node, with an id no node of d
\* has, and pushed exactly one create action for it.
AddedOneNode(d, r) ==
  /\ Len(r.world) = Len(d.world) + 1
  /\ SubSeq(r.world, 1, Len(d.world)) = d.world
  /\ r.elems[Last(r.world)].id \notin RegistryIds(d)
  /\ r.index = d.index + 1 /\ r.index = Len(r.stack) - 1
  /\ SubSeq(r.stack, 1, r.index) = SubSeq(d.stack, 1, d.index + 1)
  /\ Last(r.stack) = [type |-> "create", before |-> <<>>,
                      after |-> captureNodeState(r.elems, <<Last(r.world)>>)]

\* createNode(type, x, y) at screen point p when Date.now() is t.
CreatedAt(d, type, p, t) ==
  LET wp == screenToWorld(d, p)
  IN createNode([d EXCEPT !.now = t], type, wp[1], wp[2], FALSE, NoNodeState, t)

\* Two creations a millisecond or more apart each add one node and push one
\* create action.
CreationsApartAddNodes ==
  ~InGesture =>
     \A type \in Kinds, type2 \in Kinds :
        LET first == CreatedAt(Doc, type, <<300, 100>>, now + 1)
        IN /\ AddedOneNode(Doc, first)
           /\ AddedOneNode(first, CreatedAt(first, type2, <<300, 400>>, now + 2))

\* C29: every createNode call with a known kind and no restoration state adds
\* exactly one node, whose id no node in the document has, and pushes exactly
\* one create action with before = [] and after = [the snapshot of that node];
\* also for two creations within the same clock millisecond.
C29_CreateAddsOneNode ==
  ~InGesture =>
     \A type \in Kinds, type2 \in Kinds, t2 \in {now + 1, now + 2} :
        LET first == CreatedAt(Doc, type, <<300, 100>>, now + 1)
        IN /\ AddedOneNode(Doc, first)
           /\ AddedOneNode(first, CreatedAt(first, type2, <<300, 400>>, t2))

---------------------------------------------------------------------------
(* Properties of the editor map *)

\* The ids of the image-editor nodes in the document.
EditorNodeIds == {id \in RegistryIds(Doc) : id.kind = "image-editor"}

\* Every image-editor node in the document has an editor state.
EditorNodesHaveEditors == EditorNodeIds \subseteq DOMAIN editor2dInstances

\* C30: in every reachable state an editor state is registered for an id if and
\* only if an image-editor node with that id is in the document, and the active
\* editor, if any, is the editor of such a node.
C30_EditorsOfNodes ==
  /\ DOMAIN editor2dInstances = EditorNodeIds
  /\ \A i \in 1..Len(activeEditorNode) : activeEditorNode[i] \in EditorNodeIds

---------------------------------------------------------------------------
(* Properties of the crop box *)

\* The screen point whose position relative to the canvas of editor id is pos.
ScreenOf(d, id, pos) ==
  LET o == getRelativePointerPos(d, id, <<0, 0>>)
  IN <<pos.x - o.x, pos.y - o.y>>

\* Displacements of the pointer on one axis: around 0 and around the threshold
\* of 5 px, in both directions.
CropDeltas == {-20, -6, -5, 0, 5, 6, 20}

\* The states in which the crop box of editor id is being defined: the state
\* itself, and the states after a pointer-move that puts the pointer at each
\* displacement from the pointer-down.
DefiningStates(d, id) ==
  {d} \cup {onEditorPointerMove(d, id,
              ScreenOf(d, id, [x |-> d.eds[id].opStart.x + dx, y |-> d.eds[id].opStart.y + dy]),
              FALSE) : dx \in CropDeltas, dy \in CropDeltas}

\* The eight handle points of a box: corners and edge midpoints.
HandlePoints(b) ==
  {<<b.x, b.y>>, <<b.x + b.w \div 2, b.y>>, <<b.x + b.w, b.y>>,
   <<b.x + b.w, b.y + b.h \div 2>>, <<b.x + b.w, b.y + b.h>>,
   <<b.x + b.w \div 2, b.y + b.h>>, <<b.x, b.y + b.h>>, <<b.x, b.y + b.h \div 2>>}

ProbePositions(b) ==
  {[x |-> h[1] + o[1], y |-> h[2] + o[2]] :
     h \in HandlePoints(b), o \in {<<0, 0>>, <<7, -7>>, <<-8, -8>>}}
    \cup {[x |-> b.x + b.w \div 2, y |-> b.y + b.h \div 2],
          [x |-> b.x + b.w + 50, y |-> b.y + b.h + 50]}

\* The handles of ed whose hit box holds pos.
HandlesAt(ed, pos) ==
  {i \in 1..Len(ed.handles) :
     /\ Abs(pos.x - ed.handles[i].x) < CROP_HANDLE_HITBOX
     /\ Abs(pos.y - ed.handles[i].y) < CROP_HANDLE_HITBOX}

\* The pointer-moves that follow the pointer-down at pos: by (-6,4) and by
\* (20,-5), with and without Shift.
CropDrags(d, id, pos) ==
  {onEditorPointerMove(d, id, ScreenOf(d, id, [x |-> pos.x + m[1], y |-> pos.y + m[2]]), sh) :
     m \in {<<-6, 4>>, <<20, -5>>}, sh \in BOOLEAN}

\* The box n is the box b resized by the handle called name: the sides the
\* handle is not on are where they were.
OppositeSidesFixed(b, n, name) ==
  /\ name \in {"tl", "bl", "ml"} => n.x + n.w = b.x + b.w
  /\ name \in {"tr", "mr", "br"} => n.x = b.x
  /\ name \in {"tm", "bm"} => n.x = b.x /\ n.w = b.w
  /\ name \in {"tl", "tm", "tr"} => n.y + n.h = b.y + b.h
  /\ name \in {"bl", "bm", "br"} => n.y = b.y
  /\ name \in {"ml", "mr"} => n.y = b.y /\ n.h = b.h

---------------------------------------------------------------------------
(* Properties of the history and the registry *)

\* The ids in the after snapshots of the create actions up to the cursor.
CreatedIds ==
  UNION {{stack[i].after[k].id : k \in 1..Len(stack[i].after)} :
           i \in {j \in 1..(index + 1) : stack[j].type = "create"}}

\* C33: in every state in which no undo() or redo() is executing, the ids of the
\* nodes in the document are the ids listed in the after snapshots of the
\* create actions at stack positions 0..cursor.
C33_RegistryIsHistory ==
  ~isApplyingHistory => RegistryIds(Doc) = CreatedIds

\* The actions whose before and after are lists of node states.
NodeActionTypes == {"create", "move", "resize"}

\* C34: for any two consecutive stack entries that list the same node, the
\* node's geometry in the after snapshot of the first equals its geometry in
\* the before snapshot of the second, also when undo or redo is called from the
\* keyboard while a drag or resize is in progress.
C34_EntriesChain ==
  \A k \in 1..(Len(stack) - 1) :
     (stack[k].type \in NodeActionTypes /\ stack[k + 1].type \in NodeActionTypes) =>
        \A i \in 1..Len(stack[k].after), j \in 1..Len(stack[k + 1].before) :
           stack[k].after[i].id = stack[k + 1].before[j].id =>
              stack[k].after[i] = stack[k + 1].before[j]

\* C35: every move and resize action in the stack has before and after lists
\* of the same length that list the same node ids in the same order.
C35_BeforeAfterSameNodes ==
  \A k \in 1..Len(stack) :
     stack[k].type \in {"move", "resize"} =>
        /\ Len(stack[k].before) = Len(stack[k].after)
        /\ \A i \in 1..Len(stack[k].before) :
              i <= Len(stack[k].after) /\ stack[k].before[i].id = stack[k].after[i].id

\* C36: at the pointer-up of a drag, resize, pan or box-select, the positions of
\* the dragged nodes (the size of the resized node, the pan, the selection) are
\* those for the last pointer-move delivered before the pointer-up, also when
\* no frame has run since that move.
C36_LastMoveApplied ==
  InGesture =>
     /\ Geometry(onPointerUp(Doc)) = Geometry(onPointerUp(updatePositions(Doc)))
     /\ onPointerUp(Doc).stack = onPointerUp(updatePositions(Doc)).stack

\* With no move waiting for a frame, the pointer-up leaves the geometry, the
\* pan and the selection as the last frame made them.
AppliedMoveKept ==
  (InGesture /\ ~pointerAction.updateScheduled) =>
     Geometry(onPointerUp(Doc)) = Geometry(Doc)

---------------------------------------------------------------------------
(* Properties of the image loads *)

\* The image and the placement of editor id are those of a snapshot.
Shows(d, id, image, metadata) ==
  /\ d.eds[id].bgImage = image
  /\ d.eds[id].bgImagePos = metadata.pos
  /\ d.eds[id].bgImageScale = metadata.scale

\* undo() and then redo() are called on the editor:modify action at the cursor,
\* the second before the image load of the first has completed.
UndoneAndRedone(d) == HistoryRedo(HistoryUndo(d, d.zoom), d.zoom)

\* An editor:modify action is at the cursor and no load is in flight.
AtEditorAction ==
  /\ index >= 0
  /\ stack[index + 1].type = "editor:modify"
  /\ stack[index + 1].nodeId \in DOMAIN editor2dInstances
  /\ imageLoads = <<>>

\* C37: after several undo() and redo() calls on editor:modify actions of one
\* editor, issued before their image loads complete, the editor shows, once all
\* loads have completed, the image and the placement of the last call issued,
\* whatever the order in which the loads complete.
C37_LastCallWins ==
  AtEditorAction =>
    LET a == stack[index + 1]
        issued == UndoneAndRedone(Doc)
    IN \A first \in 1..Len(issued.loads) :
         Shows(CompleteLoads(CompleteLoad(issued, first)), a.nodeId, a.after, a.metadata)

\* When the loads complete in the order of the calls, the editor shows the
\* snapshot of the last call.
LoadsInOrderShowLastCall ==
  AtEditorAction =>
    LET a == stack[index + 1]
    IN /\ Len(UndoneAndRedone(Doc).loads) = 2
       /\ Shows(CompleteLoads(UndoneAndRedone(Doc)), a.nodeId, a.after, a.metadata)
       /\ a.before # a.after

\* The positions of the loads in flight that are crop commits.
CropLoads == {i \in 1..Len(imageLoads) : imageLoads[i].kind = "crop"}

\* The editor:modify action that the load callback of a crop commit pushes.
IsCropEntry(a, load) ==
  a.type = "editor:modify" /\ a.nodeId = load.nodeId /\ a.after = load.src

\* C38: the editor:modify entry of a crop commit, pushed from the load
\* callback, is in the stack before the entry of any action performed after the
\* commit was requested; an undo() between the request and the load callback
\* does not make the push discard an entry.
C38_CropEntryInRequestOrder ==
  \A i \in CropLoads :
     LET load == imageLoads[i]
         later == CreatedAt(Doc, "text", <<300, 100>>, now + 1)
         done == CompleteLoad(later, i)
         undone == CompleteLoad(HistoryUndo(Doc, zoom), i)
     IN /\ \E j, k \in 1..Len(done.stack) :
             j < k /\ IsCropEntry(done.stack[j], load) /\ done.stack[k] = Last(later.stack)
        /\ \A k \in 1..(index + 1) :
             k <= Len(undone.stack) /\ undone.stack[k] = stack[k]

\* When nothing happens between the request and the load callback, the
\* callback pushes the entry of the commit at the cursor.
CropEntryPushedAtLoad ==
  \A i \in CropLoads :
     LET done == CompleteLoad(Doc, i)
     IN /\ done.index = index + 1
        /\ done.stack = Append(SubSeq(stack, 1, index + 1), Last(done.stack))
        /\ IsCropEntry(Last(done.stack), imageLoads[i])

\* An undo() between the request and the load callback: the entry that was
\* at the cursor is not in the stack after the callback.
UndoBeforeCropLoadDropsEntry ==
  \A i \in CropLoads :
     index >= 0 =>
        LET undone == CompleteLoad(HistoryUndo(Doc, zoom), i)
        IN /\ Len(undone.stack) = index + 1
           /\ IsCropEntry(undone.stack[index + 1], imageLoads[i])

\* Editor id is in a gesture that moves or rescales its background image, or
\* defines, resizes or moves its crop box.
PlacingOrCropping(d, id) ==
  LET ed == d.eds[id]
  IN /\ ed.listening
     /\ \/ ed.isMovingImage \/ ed.isTransforming \/ ed.isDefiningCropArea
        \/ ed.activeHandle # "" \/ ed.isMovingCropBox

\* The results in editor id of a pointer-move of such a gesture, and of the
\* cancel of its crop.
PlacedOrCropped(d, id) ==
  {onEditorPointerMove(d, id, p, FALSE).eds[id] :
     p \in (IF PlacingOrCropping(d, id) THEN Points ELSE {})}
  \cup (IF d.eds[id].isCroppingActive \/ d.eds[id].isDefiningCropArea
        THEN {endCrop(d, id, FALSE).eds[id]} ELSE {})

\* C39: moving the background image, rescaling it, and defining, adjusting or
\* cancelling a crop box leave the strokes and text stamps drawn before on the
\* canvas.
C39_PlacementKeepsDrawing ==
  \A id \in LiveEditors :
     HasDrawing(editor2dInstances[id].bitmap) =>
        \A ed \in PlacedOrCropped(Doc, id) : HasDrawing(ed.bitmap)

\* These operations change, besides the canvas, only the placement of the
\* image and the crop sub-state of the editor.
PlacementChangesOnlyPlacement ==
  \A id \in LiveEditors :
     \A ed \in PlacedOrCropped(Doc, id) :
        ed = [editor2dInstances[id] EXCEPT
                !.bitmap = ed.bitmap, !.bgImagePos = ed.bgImagePos,
                !.bgImageScale = ed.bgImageScale, !.cropBox = ed.cropBox,
                !.handles = ed.handles, !.isCroppingActive = ed.isCroppingActive,
                !.isDefiningCropArea = ed.isDefiningCropArea,
                !.activeHandle = ed.activeHandle,
                !.isMovingCropBox = ed.isMovingCropBox]

\* Displacements of the pointer that carry a handle past the opposite side.
FarDeltas == {-40, 0, 40}

\* Editor id after a pointer-down at a probe position of its Active box with
\* the crop tool and a pointer-move by a displacement, with and without Shift.
DraggedBoxes(d, id) ==
  UNION {{onEditorPointerMove(onEditorPointerDown(d, id, ScreenOf(d, id, pos)), id,
             ScreenOf(d, id, [x |-> pos.x + dx, y |-> pos.y + dy]), shiftKey).eds[id]
           : dx \in FarDeltas, dy \in FarDeltas, shiftKey \in BOOLEAN}
         : pos \in ProbePositions(d.eds[id].cropBox)}

\* C40: whenever the crop sub-state of an editor is Active, its crop box has
\* width > 0 and height > 0, also after a handle drag, an aspect-locked corner
\* drag or a move of the box.
C40_ActiveBoxPositive ==
  \A id \in LiveEditors :
     /\ editor2dInstances[id].isCroppingActive =>
           editor2dInstances[id].cropBox.w > 0 /\ editor2dInstances[id].cropBox.h > 0
     /\ (editor2dInstances[id].isCroppingActive /\ activeTool = "crop" /\ Settled) =>
           \A ed \in DraggedBoxes(Doc, id) :
              ed.isCroppingActive => ed.cropBox.w > 0 /\ ed.cropBox.h > 0

\* A move of the box, and a drag of a handle by (-6,4), short of the opposite
\* side, keep the width and the height positive.
ShortDragsKeepBoxPositive ==
  \A id \in LiveEditors :
     (editor2dInstances[id].isCroppingActive /\ activeTool = "crop" /\ Settled
      /\ editor2dInstances[id].cropBox.w > 6 /\ editor2dInstances[id].cropBox.h > 6) =>
        \A pos \in ProbePositions(editor2dInstances[id].cropBox), shiftKey \in BOOLEAN :
           LET g == onEditorPointerMove(
                      onEditorPointerDown(Doc, id, ScreenOf(Doc, id, pos)), id,
                      ScreenOf(Doc, id, [x |-> pos.x - 6, y |-> pos.y + 4]), shiftKey)
           IN g.eds[id].isCroppingActive
                 => g.eds[id].cropBox.w > 0 /\ g.eds[id].cropBox.h > 0

====
